---- MODULE Spec2Model ----
(***************************************************************************)
(* SOL-X: a contract DSL compiled to Anchor source text.                   *)
(*                                                                         *)
(* The pipeline is  text -> parse -> Hir::from_ast -> generate_anchor_code *)
(* Source text is a TLA+ string read character by character, the way the   *)
(* chumsky combinators of solx_parser read it (there is no lexer).  The    *)
(* AST is made of records, and generated text is a sequence of lines.      *)
(***************************************************************************)
EXTENDS Integers, Sequences, FiniteSets, TLC

VARIABLES
    pc,        \* position of the run: "build", "start", "parsed", "checked",
               \* "generated", "src ready", "written", "done", "failed"
    source,    \* the DSL text handed to parse
    ast,       \* Result<Program> of parse (or the Program handed to Hir::from_ast)
    hir,       \* Result<Hir> of Hir::from_ast
    output,    \* the lines of the String returned by generate_anchor_code
    acct,      \* an AccountDef under edit (size study)
    size,      \* the space computed for acct
    prevSize,  \* the space computed before the last edit
    edit,      \* the last edit applied to acct
    disk,      \* the project directory of a build
    disk0,     \* the project directory as the build found it
    anchor     \* what became of the external `anchor build` command

vars == <<pc, source, ast, hir, output, acct, size, prevSize, edit,
          disk, disk0, anchor>>

----------------------------------------------------------------------------
(* Characters *)

Whitespace == {" ", "\t", "\n", "\r"}

Digits == {"0", "1", "2", "3", "4", "5", "6", "7", "8", "9"}

Alphabetic ==
    {"a", "b", "c", "d", "e", "f", "g", "h", "i", "j", "k", "l", "m",
     "n", "o", "p", "q", "r", "s", "t", "u", "v", "w", "x", "y", "z",
     "A", "B", "C", "D", "E", "F", "G", "H", "I", "J", "K", "L", "M",
     "N", "O", "P", "Q", "R", "S", "T", "U", "V", "W", "X", "Y", "Z"}

\* The character of s at position p; "" past the end of the input.
At(s, p) == IF p >= 1 /\ p <= Len(s) THEN SubSeq(s, p, p) ELSE ""

----------------------------------------------------------------------------
(* Parser results: a failure, or a value and the position after it *)

Fail == [ok |-> FALSE]

Ok(v, p) == [ok |-> TRUE, val |-> v, pos |-> p]

\* chumsky's padded(): whitespace before (and after) a parser is skipped.
RECURSIVE SkipWs(_, _)
SkipWs(s, p) == IF At(s, p) \in Whitespace THEN SkipWs(s, p + 1) ELSE p

\* just(lit): the position after lit when s continues with lit at p, else 0.
just(lit, s, p) ==
    IF p + Len(lit) - 1 <= Len(s) /\ SubSeq(s, p, p + Len(lit) - 1) = lit
    THEN p + Len(lit)
    ELSE 0

\* just(lit).padded()
just_padded(lit, s, p) ==
    LET q == just(lit, s, SkipWs(s, p))
    IN  IF q = 0 THEN 0 ELSE SkipWs(s, q)

\* keyword(s) is just(s).padded(): no word boundary is required after it.
keyword(lit, s, p) == just_padded(lit, s, p)

RECURSIVE IdentEnd(_, _)
IdentEnd(s, p) ==
    IF At(s, p) \in Alphabetic \cup Digits \cup {"_"}
    THEN IdentEnd(s, p + 1)
    ELSE p

\* text::ident(): [A-Za-z_][A-Za-z0-9_]*
text_ident(s, p) ==
    IF At(s, p) \in Alphabetic \cup {"_"}
    THEN LET e == IdentEnd(s, p + 1) IN Ok(SubSeq(s, p, e - 1), e)
    ELSE Fail

\* ident = text::ident().padded()
ident(s, p) ==
    LET r == text_ident(s, SkipWs(s, p))
    IN  IF r.ok THEN Ok(r.val, SkipWs(s, r.pos)) ELSE Fail

RECURSIVE DigitsEnd(_, _)
DigitsEnd(s, p) == IF At(s, p) \in Digits THEN DigitsEnd(s, p + 1) ELSE p

\* a variant of text::int that takes a leading '-' into the number
text_int_signed(s, p) ==
    LET q == IF At(s, p) = "-" THEN p + 1 ELSE p
    IN  IF At(s, q) \in Digits \ {"0"}
        THEN LET e == DigitsEnd(s, q + 1) IN Ok(SubSeq(s, p, e - 1), e)
        ELSE IF At(s, q) = "0" THEN Ok(SubSeq(s, p, q), q + 1) ELSE Fail

\* text::int(10): a single 0, or a non-zero digit followed by digits.
text_int(s, p) ==
    IF At(s, p) \in Digits \ {"0"}
    THEN LET e == DigitsEnd(s, p + 1) IN Ok(SubSeq(s, p, e - 1), e)
    ELSE IF At(s, p) = "0" THEN Ok("0", p + 1) ELSE Fail

\* choice((just(l1).to(v1), just(l2).to(v2), ...)): the first literal of the
\* table that matches at p wins; later alternatives are not tried after it.
RECURSIVE choice_just(_, _, _, _)
choice_just(table, i, s, p) ==
    IF i > Len(table) THEN Fail
    ELSE LET q == just(table[i][1], s, p)
         IN  IF q # 0 THEN Ok(table[i][2], q)
             ELSE choice_just(table, i + 1, s, p)

----------------------------------------------------------------------------
(* solx_ast: Type, ParamType *)

Pubkey == [tag |-> "Pubkey"]
U8 == [tag |-> "U8"]
U16 == [tag |-> "U16"]
U32 == [tag |-> "U32"]
U64 == [tag |-> "U64"]
I8 == [tag |-> "I8"]
I16 == [tag |-> "I16"]
I32 == [tag |-> "I32"]
I64 == [tag |-> "I64"]
Bool == [tag |-> "Bool"]
String == [tag |-> "String"]
Vec(t) == [tag |-> "Vec", inner |-> t]
Option(t) == [tag |-> "Option", inner |-> t]

Signer == [tag |-> "Signer"]
Account(n) == [tag |-> "Account", name |-> n]

\* Type::to_rust_type
RECURSIVE to_rust_type(_)
to_rust_type(ty) ==
    CASE ty.tag = "Pubkey" -> "Pubkey"
      [] ty.tag = "U8" -> "u8"
      [] ty.tag = "U16" -> "u16"
      [] ty.tag = "U32" -> "u32"
      [] ty.tag = "U64" -> "u64"
      [] ty.tag = "I8" -> "i8"
      [] ty.tag = "I16" -> "i16"
      [] ty.tag = "I32" -> "i32"
      [] ty.tag = "I64" -> "i64"
      [] ty.tag = "Bool" -> "bool"
      [] ty.tag = "String" -> "String"
      [] ty.tag = "Vec" -> "Vec<" \o to_rust_type(ty.inner) \o ">"
      [] ty.tag = "Option" -> "Option<" \o to_rust_type(ty.inner) \o ">"

\* ParamType::to_rust_type
param_to_rust_type(ty) ==
    CASE ty.tag = "Signer" -> "Signer<'_>"
      [] ty.tag = "Account" -> "Account<'_, " \o ty.name \o ">"
      [] ty.tag = "Pubkey" -> "Pubkey"
      [] ty.tag = "U8" -> "u8"
      [] ty.tag = "U16" -> "u16"
      [] ty.tag = "U32" -> "u32"
      [] ty.tag = "U64" -> "u64"
      [] ty.tag = "I8" -> "i8"
      [] ty.tag = "I16" -> "i16"
      [] ty.tag = "I32" -> "i32"
      [] ty.tag = "I64" -> "i64"
      [] ty.tag = "Bool" -> "bool"
      [] ty.tag = "String" -> "String"

----------------------------------------------------------------------------
(* solx_parser: types, fields, account definitions, parameters *)

TypeTable ==
    << <<"Pubkey", Pubkey>>, <<"u8", U8>>, <<"u16", U16>>, <<"u32", U32>>,
       <<"u64", U64>>, <<"i8", I8>>, <<"i16", I16>>, <<"i32", I32>>,
       <<"i64", I64>>, <<"bool", Bool>>, <<"String", String>> >>

\* the rules of the grammar refer to one another: Run applies a rule by name,
\* chain applies a then-chain of links
RECURSIVE Run(_, _, _), chain(_, _, _)

\* The links of a then-chain: keyword(lit), just(lit), just(lit).padded(),
\* ident, a quoted string, another parser of the grammar, parser.repeated(),
\* and chain.or_not()
ThenKeyword(lit) == [step |-> "keyword", arg |-> lit]
ThenJust(lit) == [step |-> "just", arg |-> lit]
ThenPadded(lit) == [step |-> "padded", arg |-> lit]
ThenIdent == [step |-> "ident", arg |-> ""]
ThenQuoted == [step |-> "quoted", arg |-> ""]
Then(parser) == [step |-> "parser", arg |-> parser]
ThenRepeated(parser) == [step |-> "repeated", arg |-> parser]
ThenOrNot(links) == [step |-> "or_not", arg |-> links]

\* type_parser: the scalar names in order, then Vec<ty>, then Option<ty>; padded.
RECURSIVE type_parser(_, _)
type_parser_choice(s, scalar, vec, opt) ==
    LET r == IF scalar.ok THEN scalar
             ELSE IF vec.ok THEN Ok(Vec(vec.val[1]), vec.pos)
             ELSE IF opt.ok THEN Ok(Option(opt.val[1]), opt.pos)
             ELSE Fail
    IN  IF r.ok THEN Ok(r.val, SkipWs(s, r.pos)) ELSE Fail

type_parser(s, p) ==
    type_parser_choice(s,
        choice_just(TypeTable, 1, s, SkipWs(s, p)),
        chain(<<ThenJust("Vec<"), Then("type_parser"), ThenJust(">")>>,
              s, SkipWs(s, p)),
        chain(<<ThenJust("Option<"), Then("type_parser"), ThenJust(">")>>,
              s, SkipWs(s, p)))

\* field = ident ":" type, padded
field_map(s, r) ==
    IF r.ok THEN Ok([name |-> r.val[1], ty |-> r.val[2]], SkipWs(s, r.pos))
    ELSE Fail

\* a variant of field that takes a comma after the type when there is one
field_comma_terminated(s, p) ==
    field_map(s, chain(<<ThenIdent, ThenPadded(":"), Then("type_parser"),
                         ThenOrNot(<<ThenPadded(",")>>)>>,
                       s, SkipWs(s, p)))

field(s, p) ==
    field_map(s, chain(<<ThenIdent, ThenPadded(":"), Then("type_parser")>>,
                       s, SkipWs(s, p)))

\* account_def = "account" ident "{" field* "}", padded
account_def_map(s, r) ==
    IF r.ok THEN Ok([name |-> r.val[1], fields |-> r.val[2]], SkipWs(s, r.pos))
    ELSE Fail

account_def(s, p) ==
    account_def_map(s, chain(<<ThenKeyword("account"), ThenIdent,
                               ThenPadded("{"), ThenRepeated("field"),
                               ThenPadded("}")>>,
                             s, SkipWs(s, p)))

ParamTypeTable ==
    << <<"Signer", Signer>>, <<"Pubkey", Pubkey>>, <<"u8", U8>>,
       <<"u16", U16>>, <<"u32", U32>>, <<"u64", U64>>, <<"i8", I8>>,
       <<"i16", I16>>, <<"i32", I32>>, <<"i64", I64>>, <<"bool", Bool>>,
       <<"String", String>> >>

\* param_type_parser: the fixed names in order, else any ident as an account type
param_type_parser(s, p) ==
    LET q == SkipWs(s, p)
        fixed == choice_just(ParamTypeTable, 1, s, q)
        named == ident(s, q)
        r == IF fixed.ok THEN fixed
             ELSE IF named.ok THEN Ok(Account(named.val), named.pos)
                  ELSE Fail
    IN  IF r.ok THEN Ok(r.val, SkipWs(s, r.pos)) ELSE Fail

\* param = ident ":" param_type, padded
param_map(s, r) ==
    IF r.ok THEN Ok([name |-> r.val[1], ty |-> r.val[2]], SkipWs(s, r.pos))
    ELSE Fail

param(s, p) ==
    param_map(s, chain(<<ThenIdent, ThenPadded(":"),
                         Then("param_type_parser")>>,
                       s, SkipWs(s, p)))

\* the (just(",").padded() param)* tail of param.separated_by(",")
RECURSIVE param_more(_, _, _)
param_more(s, p, acc) ==
    LET c == just_padded(",", s, p)
        r == IF c = 0 THEN Fail ELSE Run("param", s, c)
    IN  IF r.ok THEN param_more(s, r.pos, Append(acc, r.val))
        ELSE Ok(acc, p)

\* param.separated_by(just(",").padded()): zero or more, no trailing separator
param_separated(s, p) ==
    LET r == Run("param", s, p)
    IN  IF r.ok THEN param_more(s, r.pos, <<r.val>>) ELSE Ok(<<>>, p)

----------------------------------------------------------------------------
(* solx_ast: Literal, Expr, Statement *)

\* a u64 is held as four 16-bit limbs, least significant first
Limb == 65536

u64(n) == <<n % Limb, (n \div Limb) % Limb, 0, 0>>

LitInt(n) == [kind |-> "Int", value |-> n]
LitUInt(n) == [kind |-> "UInt", value |-> u64(n)]
LitU64(v) == [kind |-> "UInt", value |-> v]
LitBool(b) == [kind |-> "Bool", flag |-> b]
LitString(str) == [kind |-> "String", text |-> str]

Ident(n) == [kind |-> "Ident", name |-> n]
FieldAccess(o, f) == [kind |-> "FieldAccess", object |-> o, field |-> f]
Literal(l) == [kind |-> "Literal", lit |-> l]
BinaryOp(o, l, r) == [kind |-> "BinaryOp", op |-> o, left |-> l, right |-> r]
UnaryOp(o, e) == [kind |-> "UnaryOp", op |-> o, operand |-> e]

\* signer and message are Option<String>: <<>> is None, <<x>> is Some(x)
InitAccount(v, a, py, sg) ==
    [kind |-> "InitAccount", var_name |-> v, account_name |-> a,
     payer |-> py, signer |-> sg]
Require(c, m) == [kind |-> "Require", condition |-> c, message |-> m]
Assign(t, v) == [kind |-> "Assign", target |-> t, value |-> v]
ExprStmt(e) == [kind |-> "Expr", expr |-> e]

----------------------------------------------------------------------------
(* solx_parser: expressions *)

DigitValue(c) ==
    CASE c = "0" -> 0 [] c = "1" -> 1 [] c = "2" -> 2 [] c = "3" -> 3
      [] c = "4" -> 4 [] c = "5" -> 5 [] c = "6" -> 6 [] c = "7" -> 7
      [] c = "8" -> 8 [] c = "9" -> 9

\* checked_mul(10) then checked_add(digit) on a u64
checked_mul_add(v, d) ==
    LET t1 == v[1] * 10 + d
        t2 == v[2] * 10 + t1 \div Limb
        t3 == v[3] * 10 + t2 \div Limb
        t4 == v[4] * 10 + t3 \div Limb
    IN  [overflow |-> t4 \div Limb # 0,
         value |-> <<t1 % Limb, t2 % Limb, t3 % Limb, t4 % Limb>>]

\* str::parse::<u64> on a text of digits: the digits are accumulated from the
\* left, and the first step that leaves the range of u64 is an error
RECURSIVE parse_u64(_, _, _)
parse_u64(d, i, acc) ==
    IF i > Len(d) THEN [ok |-> TRUE, value |-> acc]
    ELSE LET n == checked_mul_add(acc, DigitValue(At(d, i)))
         IN  IF n.overflow THEN [ok |-> FALSE, value |-> acc]
             ELSE parse_u64(d, i + 1, n.value)

\* a variant of str::parse::<u64> that keeps the low 64 bits
RECURSIVE parse_u64_low_bits(_, _, _)
parse_u64_low_bits(d, i, acc) ==
    IF i > Len(d) THEN acc
    ELSE LET n == checked_mul_add(acc, DigitValue(At(d, i)))
         IN  IF n.overflow
             THEN parse_u64_low_bits(d, i + 1, n.value)  \* the carry is dropped
             ELSE parse_u64_low_bits(d, i + 1, n.value)

parse_u64_wrapping(d) == parse_u64_low_bits(d, 1, u64(0))

\* s.parse::<u64>().unwrap_or(0) on the digits text::int accepted
parse_u64_or_0(d) ==
    IF parse_u64(d, 1, u64(0)).ok THEN parse_u64(d, 1, u64(0)).value ELSE u64(0)

I64MaxText == "9223372036854775807"

\* d1 <= d2 for two digit strings of the same length
RECURSIVE DigitsLeq(_, _, _)
DigitsLeq(d1, d2, i) ==
    IF i > Len(d1) THEN TRUE
    ELSE IF DigitValue(At(d1, i)) < DigitValue(At(d2, i)) THEN TRUE
    ELSE IF DigitValue(At(d1, i)) > DigitValue(At(d2, i)) THEN FALSE
    ELSE DigitsLeq(d1, d2, i + 1)

RECURSIVE DecimalValue(_, _, _)
DecimalValue(d, i, acc) ==
    IF i > Len(d) THEN acc
    ELSE DecimalValue(d, i + 1, acc * 10 + DigitValue(At(d, i)))

\* s.parse::<i64>().unwrap_or(0) on a text that starts with '-'
parse_i64_or_0(d) ==
    IF Len(d) - 1 < Len(I64MaxText)
       \/ (Len(d) - 1 = Len(I64MaxText)
             /\ DigitsLeq(SubSeq(d, 2, Len(d)), "9223372036854775808", 1))
    THEN 0 - DecimalValue(SubSeq(d, 2, Len(d)), 1, 0)
    ELSE 0

\* u64 / 10 and u64 % 10
div_rem_10(v) ==
    LET r4 == v[4] % 10
        r3 == (r4 * Limb + v[3]) % 10
        r2 == (r3 * Limb + v[2]) % 10
    IN  [quot |-> <<(r2 * Limb + v[1]) \div 10, (r3 * Limb + v[2]) \div 10,
                    (r4 * Limb + v[3]) \div 10, v[4] \div 10>>,
         rem |-> (r2 * Limb + v[1]) % 10]

\* u64::to_string
RECURSIVE u64_digits(_)
u64_digits(v) ==
    IF v = u64(0) THEN ""
    ELSE u64_digits(div_rem_10(v).quot) \o ToString(div_rem_10(v).rem)

u64_to_string(v) == IF v = u64(0) THEN "0" ELSE u64_digits(v)

\* the end of none_of('"').repeated() followed by just('"'), or 0 at end of input
RECURSIVE StringClose(_, _)
StringClose(s, p) ==
    IF p > Len(s) THEN 0
    ELSE IF At(s, p) = "\"" THEN p
    ELSE StringClose(s, p + 1)

\* just('"') none_of('"')* just('"'), giving the text between the quotes
quoted(s, p) ==
    LET a == just("\"", s, p)
        c == IF a = 0 THEN 0 ELSE StringClose(s, a)
    IN  IF c = 0 THEN Fail ELSE Ok(SubSeq(s, a, c - 1), c + 1)

\* literal: int, true, false, string; mapped to Expr::Literal; padded.
\* text::int never yields a leading '-', so the Int branch of the map is dead.
literal(s, p) ==
    LET q == SkipWs(s, p)
        n == text_int(s, q)
        b == choice_just(<< <<"true", LitBool(TRUE)>>,
                            <<"false", LitBool(FALSE)>> >>, 1, s, q)
        str == quoted(s, q)
        r == IF n.ok
             THEN Ok(IF At(n.val, 1) = "-"
                     THEN LitInt(parse_i64_or_0(n.val))
                     ELSE LitU64(parse_u64_or_0(n.val)), n.pos)
             ELSE IF b.ok THEN b
             ELSE IF str.ok THEN Ok(LitString(str.val), str.pos)
             ELSE Fail
    IN  IF r.ok THEN Ok(Literal(r.val), SkipWs(s, r.pos)) ELSE Fail

\* atom = choice((literal, ident.map(Expr::Ident)))
atom(s, p) ==
    LET l == Run("literal", s, p)
        i == ident(s, p)
    IN  IF l.ok THEN l
        ELSE IF i.ok THEN Ok(Ident(i.val), i.pos)
        ELSE Fail

\* (just(".") ident)* folded to the left into FieldAccess
RECURSIVE field_access_fold(_, _, _)
field_access_fold(s, p, obj) ==
    LET d == just(".", s, p)
        f == IF d = 0 THEN Fail ELSE ident(s, d)
    IN  IF f.ok THEN field_access_fold(s, f.pos, FieldAccess(obj, f.val))
        ELSE Ok(obj, p)

field_access(s, p) ==
    LET a == Run("atom", s, p)
    IN  IF a.ok THEN field_access_fold(s, a.pos, a.val) ELSE Fail

\* unary = (("!" | "-") field_access).map(UnaryOp).or(field_access);
\* the operator sign is not padded.
unary(s, p) ==
    LET o == choice_just(<< <<"!", "Not">>, <<"-", "Neg">> >>, 1, s, p)
        e == IF o.ok THEN Run("field_access", s, o.pos) ELSE Fail
    IN  IF e.ok THEN Ok(UnaryOp(o.val, e.val), e.pos)
        ELSE Run("field_access", s, p)

RECURSIVE product_fold(_, _, _)
product_fold(s, p, lhs) ==
    LET o == choice_just(<< <<"*", "Mul">>, <<"/", "Div">>, <<"%", "Mod">> >>,
                         1, s, p)
        r == IF o.ok THEN Run("unary", s, o.pos) ELSE Fail
    IN  IF r.ok THEN product_fold(s, r.pos, BinaryOp(o.val, lhs, r.val))
        ELSE Ok(lhs, p)

product(s, p) ==
    LET a == Run("unary", s, p)
    IN  IF a.ok THEN product_fold(s, a.pos, a.val) ELSE Fail

RECURSIVE sum_fold(_, _, _)
sum_fold(s, p, lhs) ==
    LET o == choice_just(<< <<"+", "Add">>, <<"-", "Sub">> >>, 1, s, p)
        r == IF o.ok THEN Run("product", s, o.pos) ELSE Fail
    IN  IF r.ok THEN sum_fold(s, r.pos, BinaryOp(o.val, lhs, r.val))
        ELSE Ok(lhs, p)

\* a variant of sum whose first operand is a unary, not a product
sum_of_unary(s, p) ==
    LET a == Run("unary", s, p)
    IN  IF a.ok THEN sum_fold(s, a.pos, a.val) ELSE Fail

sum(s, p) ==
    LET a == Run("product", s, p)
    IN  IF a.ok THEN sum_fold(s, a.pos, a.val) ELSE Fail

\* the operator choice lists "<" before "<=" and ">" before ">="
RECURSIVE comparison_fold(_, _, _)
comparison_fold(s, p, lhs) ==
    LET o == choice_just(<< <<"==", "Eq">>, <<"!=", "Ne">>, <<"<", "Lt">>,
                            <<"<=", "Le">>, <<">", "Gt">>, <<">=", "Ge">> >>,
                         1, s, p)
        r == IF o.ok THEN Run("sum", s, o.pos) ELSE Fail
    IN  IF r.ok THEN comparison_fold(s, r.pos, BinaryOp(o.val, lhs, r.val))
        ELSE Ok(lhs, p)

comparison(s, p) ==
    LET a == Run("sum", s, p)
    IN  IF a.ok THEN comparison_fold(s, a.pos, a.val) ELSE Fail

RECURSIVE logical_and_fold(_, _, _)
logical_and_fold(s, p, lhs) ==
    LET o == just("&&", s, p)
        r == IF o # 0 THEN Run("comparison", s, o) ELSE Fail
    IN  IF r.ok THEN logical_and_fold(s, r.pos, BinaryOp("And", lhs, r.val))
        ELSE Ok(lhs, p)

logical_and(s, p) ==
    LET a == Run("comparison", s, p)
    IN  IF a.ok THEN logical_and_fold(s, a.pos, a.val) ELSE Fail

RECURSIVE logical_or_fold(_, _, _)
logical_or_fold(s, p, lhs) ==
    LET o == just("||", s, p)
        r == IF o # 0 THEN Run("logical_and", s, o) ELSE Fail
    IN  IF r.ok THEN logical_or_fold(s, r.pos, BinaryOp("Or", lhs, r.val))
        ELSE Ok(lhs, p)

logical_or(s, p) ==
    LET a == Run("logical_and", s, p)
    IN  IF a.ok THEN logical_or_fold(s, a.pos, a.val) ELSE Fail

\* expr_parser = recursive(|_expr| ... logical_or): the handle _expr is unused,
\* so no rule refers back to a whole expression (there is no grouping).
expr_parser(s, p) == Run("logical_or", s, p)

----------------------------------------------------------------------------
(* solx_parser: statements, instructions, the program *)

\* init_account = "init" "account" ident ":" ident "payer" ident ("signer" ident)?
init_account_map(s, r) ==
    IF r.ok
    THEN Ok(InitAccount(r.val[1], r.val[2], r.val[3], r.val[4]),
            SkipWs(s, r.pos))
    ELSE Fail

init_account(s, p) ==
    init_account_map(s,
        chain(<<ThenKeyword("init"), ThenKeyword("account"), ThenIdent,
                ThenPadded(":"), ThenIdent, ThenKeyword("payer"), ThenIdent,
                ThenOrNot(<<ThenKeyword("signer"), ThenIdent>>)>>,
              s, SkipWs(s, p)))

\* require = "require" expr ("," string)?  -- neither "," nor the quote is padded
require_map(s, r) ==
    IF r.ok THEN Ok(Require(r.val[1], r.val[2]), SkipWs(s, r.pos)) ELSE Fail

require(s, p) ==
    require_map(s,
        chain(<<ThenKeyword("require"), Then("expr_parser"),
                ThenOrNot(<<ThenJust(","), ThenQuoted>>)>>,
              s, SkipWs(s, p)))

\* assign_op: the compound operators carry Some(op), "=" carries None; padded
assign_op(s, p) ==
    LET r == choice_just(<< <<"+=", <<"Add">> >>, <<"-=", <<"Sub">> >>,
                            <<"*=", <<"Mul">> >>, <<"/=", <<"Div">> >>,
                            <<"%=", <<"Mod">> >>, <<"=", <<>> >> >>,
                         1, s, SkipWs(s, p))
    IN  IF r.ok THEN Ok(r.val, SkipWs(s, r.pos)) ELSE Fail

\* assign = expr assign_op expr; a compound operator wraps the value in
\* BinaryOp(op, target.clone(), value)
\* a variant of the assign map that puts the value before the target clone
assign_map_swapped_operands(s, r) ==
    IF ~r.ok THEN Fail
    ELSE IF r.val[2] # <<>>
         THEN Ok(Assign(r.val[1], BinaryOp(r.val[2][1], r.val[3], r.val[1])),
                 SkipWs(s, r.pos))
         ELSE Ok(Assign(r.val[1], r.val[3]), SkipWs(s, r.pos))

assign_map(s, r) ==
    IF ~r.ok THEN Fail
    ELSE IF r.val[2] # <<>>
         THEN Ok(Assign(r.val[1], BinaryOp(r.val[2][1], r.val[1], r.val[3])),
                 SkipWs(s, r.pos))
         ELSE Ok(Assign(r.val[1], r.val[3]), SkipWs(s, r.pos))

assign(s, p) ==
    assign_map(s, chain(<<Then("expr_parser"), Then("assign_op"),
                          Then("expr_parser")>>,
                        s, SkipWs(s, p)))

\* statement_parser = choice((init_account, require, assign, expr))
statement_parser(s, p) ==
    LET i == Run("init_account", s, p)
        r == Run("require", s, p)
        a == Run("assign", s, p)
        e == Run("expr_parser", s, p)
    IN  IF i.ok THEN i
        ELSE IF r.ok THEN r
        ELSE IF a.ok THEN a
        ELSE IF e.ok THEN Ok(ExprStmt(e.val), e.pos)
        ELSE Fail

\* instruction = "instruction" ident "(" params ")" "{" statement* "}", padded
instruction_map(s, r) ==
    IF r.ok
    THEN Ok([name |-> r.val[1], params |-> r.val[2], body |-> r.val[3]],
            SkipWs(s, r.pos))
    ELSE Fail

instruction(s, p) ==
    instruction_map(s,
        chain(<<ThenKeyword("instruction"), ThenIdent, ThenPadded("("),
                Then("param_separated"), ThenPadded(")"), ThenPadded("{"),
                ThenRepeated("statement_parser"), ThenPadded("}")>>,
              s, SkipWs(s, p)))

\* program_parser = "program" ident account_def* instruction* end()
\* a variant of the program map without then_ignore(end())
program_map_without_end(s, r) ==
    IF r.ok
    THEN Ok([name |-> r.val[1], accounts |-> r.val[2],
             instructions |-> r.val[3]], r.pos)
    ELSE Fail

program_map(s, r) ==
    IF r.ok /\ r.pos > Len(s)
    THEN Ok([name |-> r.val[1], accounts |-> r.val[2],
             instructions |-> r.val[3]], r.pos)
    ELSE Fail

program_parser(s) ==
    program_map(s, chain(<<ThenKeyword("program"), ThenIdent,
                           ThenRepeated("account_def"),
                           ThenRepeated("instruction")>>,
                         s, 1))

\* parser.repeated(): as many items as parse; a failing item is rewound.
RECURSIVE repeated(_, _, _, _)
repeated(parser, s, p, acc) ==
    LET r == Run(parser, s, p)
    IN  IF r.ok THEN repeated(parser, s, r.pos, Append(acc, r.val))
        ELSE Ok(acc, p)

\* One link of a then-chain applied after the result r: ignore_then and
\* then_ignore drop the link's output (q is the position after it, 0 when it
\* fails), then keeps it.
Drop(q, r) == IF q = 0 THEN Fail ELSE Ok(r.val, q)

Keep(x, r) == IF x.ok THEN Ok(Append(r.val, x.val), x.pos) ELSE Fail

\* or_not(): Some(output) of a chain with one kept output, or None with the
\* input rewound
KeepOption(x, r) ==
    IF x.ok THEN Ok(Append(r.val, x.val), x.pos)
    ELSE Ok(Append(r.val, <<>>), r.pos)

then_step(link, s, r) ==
    CASE link.step = "keyword" -> Drop(keyword(link.arg, s, r.pos), r)
      [] link.step = "just" -> Drop(just(link.arg, s, r.pos), r)
      [] link.step = "padded" -> Drop(just_padded(link.arg, s, r.pos), r)
      [] link.step = "ident" -> Keep(ident(s, r.pos), r)
      [] link.step = "quoted" -> Keep(quoted(s, r.pos), r)
      [] link.step = "parser" -> Keep(Run(link.arg, s, r.pos), r)
      [] link.step = "repeated" -> Keep(repeated(link.arg, s, r.pos, <<>>), r)
      [] link.step = "or_not" -> KeepOption(chain(link.arg, s, r.pos), r)

\* a.then(b).then(c)...: the links in order from position r.pos; the first
\* failing link fails the chain; the kept outputs are collected in order.
RECURSIVE then_chain(_, _, _, _)
then_chain(links, i, s, r) ==
    IF i > Len(links) \/ ~r.ok THEN r
    ELSE then_chain(links, i + 1, s, then_step(links[i], s, r))

chain(links, s, p) == then_chain(links, 1, s, Ok(<<>>, p))

\* A parser of the grammar applied to the input s at position p. The rules
\* refer to one another through this table, as the closures of program_parser
\* hold clones of one another.
Run(parser, s, p) ==
    CASE parser = "type_parser" -> type_parser(s, p)
      [] parser = "field" -> field(s, p)
      [] parser = "account_def" -> account_def(s, p)
      [] parser = "param_type_parser" -> param_type_parser(s, p)
      [] parser = "param" -> param(s, p)
      [] parser = "param_separated" -> param_separated(s, p)
      [] parser = "literal" -> literal(s, p)
      [] parser = "atom" -> atom(s, p)
      [] parser = "field_access" -> field_access(s, p)
      [] parser = "unary" -> unary(s, p)
      [] parser = "product" -> product(s, p)
      [] parser = "sum" -> sum(s, p)
      [] parser = "comparison" -> comparison(s, p)
      [] parser = "logical_and" -> logical_and(s, p)
      [] parser = "logical_or" -> logical_or(s, p)
      [] parser = "expr_parser" -> expr_parser(s, p)
      [] parser = "init_account" -> init_account(s, p)
      [] parser = "require" -> require(s, p)
      [] parser = "assign_op" -> assign_op(s, p)
      [] parser = "assign" -> assign(s, p)
      [] parser = "statement_parser" -> statement_parser(s, p)
      [] parser = "instruction" -> instruction(s, p)
      [] parser = "program_parser" -> program_parser(s)

\* parse: Ok(Program), or Err("Parse errors:\n" + the joined causes)
parse_result(r) ==
    IF r.ok THEN [ok |-> TRUE, program |-> r.val]
    ELSE [ok |-> FALSE, error |-> "Parse errors:\n"]

parse(s) == parse_result(Run("program_parser", s, 1))

----------------------------------------------------------------------------
(* solx_hir: Hir::from_ast *)

\* the inner loop: the first Account(name) parameter, from index j on, whose
\* name no AccountDef carries; <<>> when there is none
RECURSIVE first_unknown_param(_, _, _)
first_unknown_param(program, params, j) ==
    IF j > Len(params) THEN <<>>
    ELSE IF /\ params[j].ty.tag = "Account"
            /\ ~\E a \in 1..Len(program.accounts) :
                    program.accounts[a].name = params[j].ty.name
         THEN <<params[j].ty.name>>
         ELSE first_unknown_param(program, params, j + 1)

\* a variant of the account check that returns after the first instruction it looks at
first_unknown_account_one_instruction(program, i) ==
    IF i > Len(program.instructions) THEN <<>>
    ELSE first_unknown_param(program, program.instructions[i].params, 1)

\* the outer loop over the instructions, from index i on
RECURSIVE first_unknown_account(_, _)
first_unknown_account(program, i) ==
    IF i > Len(program.instructions) THEN <<>>
    ELSE LET bad == first_unknown_param(program, program.instructions[i].params, 1)
         IN  IF bad # <<>> THEN bad
             ELSE first_unknown_account(program, i + 1)

\* Hir::from_ast: Ok(Hir { program }) or Err("Unknown account type: <name>")
from_ast(program) ==
    LET bad == first_unknown_account(program, 1)
    IN  IF bad # <<>>
        THEN [ok |-> FALSE, error |-> "Unknown account type: " \o bad[1]]
        ELSE [ok |-> TRUE, program |-> program]

----------------------------------------------------------------------------
(* solx_codegen *)

RECURSIVE Flatten(_)
Flatten(seqs) == IF seqs = <<>> THEN <<>> ELSE Head(seqs) \o Flatten(Tail(seqs))

UpperCase == "ABCDEFGHIJKLMNOPQRSTUVWXYZ"
LowerCase == "abcdefghijklmnopqrstuvwxyz"

\* str::to_lowercase on ASCII text
RECURSIVE to_lowercase(_)
to_lowercase(str) ==
    IF str = "" THEN ""
    ELSE LET c == SubSeq(str, 1, 1)
             hit == {k \in 1..Len(UpperCase) : SubSeq(UpperCase, k, k) = c}
             lc == IF hit = {} THEN c
                   ELSE LET k == CHOOSE k \in hit : TRUE IN SubSeq(LowerCase, k, k)
         IN  lc \o to_lowercase(SubSeq(str, 2, Len(str)))

\* Mutation: a Vec counts its length prefix only, not the capacity word.
RECURSIVE calculate_type_size_short_vec(_)
calculate_type_size_short_vec(ty) ==
    CASE ty.tag = "Pubkey" -> 32
      [] ty.tag \in {"U8", "I8"} -> 1
      [] ty.tag \in {"U16", "I16"} -> 2
      [] ty.tag \in {"U32", "I32"} -> 4
      [] ty.tag \in {"U64", "I64"} -> 8
      [] ty.tag = "Bool" -> 1
      [] ty.tag = "String" -> 4 + 4
      [] ty.tag = "Vec" -> 4 + calculate_type_size_short_vec(ty.inner)
      [] ty.tag = "Option" -> 1 + calculate_type_size_short_vec(ty.inner)

\* calculate_type_size
RECURSIVE calculate_type_size(_)
calculate_type_size(ty) ==
    CASE ty.tag = "Pubkey" -> 32
      [] ty.tag \in {"U8", "I8"} -> 1
      [] ty.tag \in {"U16", "I16"} -> 2
      [] ty.tag \in {"U32", "I32"} -> 4
      [] ty.tag \in {"U64", "I64"} -> 8
      [] ty.tag = "Bool" -> 1
      [] ty.tag = "String" -> 4 + 4
      [] ty.tag = "Vec" -> 4 + 4 + calculate_type_size(ty.inner)
      [] ty.tag = "Option" -> 1 + calculate_type_size(ty.inner)

\* Mutation: the loop starts one field late.
RECURSIVE sum_field_sizes_skip_first(_, _, _)
sum_field_sizes_skip_first(fields, i, acc) ==
    IF i + 1 > Len(fields) THEN acc
    ELSE sum_field_sizes_skip_first(fields, i + 1,
                                    acc + calculate_type_size(fields[i + 1].ty))

RECURSIVE sum_field_sizes(_, _, _)
sum_field_sizes(fields, i, acc) ==
    IF i > Len(fields) THEN acc
    ELSE sum_field_sizes(fields, i + 1, acc + calculate_type_size(fields[i].ty))

\* the size of an initialized account: 8 for the discriminator plus the field
\* sizes of the first AccountDef named acc_name (8 alone when there is none)
account_space(program, acc_name) ==
    LET found == {a \in 1..Len(program.accounts) :
                      program.accounts[a].name = acc_name}
    IN  IF found = {} THEN 8
        ELSE LET first == CHOOSE a \in found : \A b \in found : a <= b
             IN  sum_field_sizes(program.accounts[first].fields, 1, 8)

\* a variant of generate_expr that writes a binary operation without parentheses
RECURSIVE generate_expr_bare(_)
generate_expr_bare(e) ==
    CASE e.kind = "Ident" -> "ctx.accounts." \o e.name
      [] e.kind = "FieldAccess" -> generate_expr_bare(e.object) \o "." \o e.field
      [] e.kind = "Literal" ->
            ( CASE e.lit.kind = "Int" -> ToString(e.lit.value)
                [] e.lit.kind = "UInt" -> u64_to_string(e.lit.value)
                [] e.lit.kind = "Bool" -> (IF e.lit.flag THEN "true" ELSE "false")
                [] e.lit.kind = "String" -> "\"" \o e.lit.text \o "\"" )
      [] e.kind = "BinaryOp" ->
            LET op_str == CASE e.op = "Add" -> "+" [] e.op = "Sub" -> "-"
                            [] e.op = "Mul" -> "*" [] e.op = "Div" -> "/"
                            [] e.op = "Mod" -> "%" [] e.op = "Eq" -> "=="
                            [] e.op = "Ne" -> "!=" [] e.op = "Lt" -> "<"
                            [] e.op = "Le" -> "<=" [] e.op = "Gt" -> ">"
                            [] e.op = "Ge" -> ">=" [] e.op = "And" -> "&&"
                            [] e.op = "Or" -> "||"
            IN  generate_expr_bare(e.left) \o " " \o op_str \o " "
                    \o generate_expr_bare(e.right)
      [] e.kind = "UnaryOp" ->
            (IF e.op = "Not" THEN "!" ELSE "-") \o generate_expr_bare(e.operand)

\* generate_expr
RECURSIVE generate_expr(_)
generate_expr(e) ==
    CASE e.kind = "Ident" -> "ctx.accounts." \o e.name
      [] e.kind = "FieldAccess" -> generate_expr(e.object) \o "." \o e.field
      [] e.kind = "Literal" ->
            ( CASE e.lit.kind = "Int" -> ToString(e.lit.value)
                [] e.lit.kind = "UInt" -> u64_to_string(e.lit.value)
                [] e.lit.kind = "Bool" -> (IF e.lit.flag THEN "true" ELSE "false")
                [] e.lit.kind = "String" -> "\"" \o e.lit.text \o "\"" )
      [] e.kind = "BinaryOp" ->
            LET op_str == CASE e.op = "Add" -> "+" [] e.op = "Sub" -> "-"
                            [] e.op = "Mul" -> "*" [] e.op = "Div" -> "/"
                            [] e.op = "Mod" -> "%" [] e.op = "Eq" -> "=="
                            [] e.op = "Ne" -> "!=" [] e.op = "Lt" -> "<"
                            [] e.op = "Le" -> "<=" [] e.op = "Gt" -> ">"
                            [] e.op = "Ge" -> ">=" [] e.op = "And" -> "&&"
                            [] e.op = "Or" -> "||"
            IN  "(" \o generate_expr(e.left) \o " " \o op_str \o " "
                    \o generate_expr(e.right) \o ")"
      [] e.kind = "UnaryOp" ->
            (IF e.op = "Not" THEN "!" ELSE "-") \o generate_expr(e.operand)

\* generate_statement: the lines one statement contributes to the handler body
generate_statement(stmt) ==
    CASE stmt.kind = "InitAccount" -> <<>>
      [] stmt.kind = "Require" ->
            IF stmt.message # <<>>
            THEN <<"        require!(" \o generate_expr(stmt.condition) \o ", "
                       \o stmt.message[1] \o ");">>
            ELSE <<"        require!(" \o generate_expr(stmt.condition) \o ");">>
      [] stmt.kind = "Assign" ->
            <<"        " \o generate_expr(stmt.target) \o " = "
                  \o generate_expr(stmt.value) \o ";">>
      [] stmt.kind = "Expr" -> <<"        " \o generate_expr(stmt.expr) \o ";">>

\* one #[account] struct per AccountDef
account_struct(account) ==
    <<"#[account]", "pub struct " \o account.name \o " {">>
    \o [f \in 1..Len(account.fields) |->
            "    pub " \o account.fields[f].name \o ": "
                \o to_rust_type(account.fields[f].ty) \o ","]
    \o <<"}", "">>

\* Mutation: only Signer parameters are skipped, Account parameters are kept.
handler_params_keep_accounts(ins) ==
    LET kept == SelectSeq(ins.params, LAMBDA q : q.ty.tag # "Signer")
    IN  [k \in 1..Len(kept) |->
            "        " \o kept[k].name \o ": " \o param_to_rust_type(kept[k].ty) \o ","]

\* the handler's parameters: Signer and Account parameters are skipped
handler_params(ins) ==
    LET kept == SelectSeq(ins.params,
                          LAMBDA q : q.ty.tag \notin {"Signer", "Account"})
    IN  [k \in 1..Len(kept) |->
            "        " \o kept[k].name \o ": " \o param_to_rust_type(kept[k].ty) \o ","]

\* one handler per instruction
handler(ins) ==
    <<"    pub fn " \o ins.name \o "(",
      "        ctx: Context<" \o ins.name \o "Context>,">>
    \o handler_params(ins)
    \o <<"    ) -> Result<()> {">>
    \o Flatten([k \in 1..Len(ins.body) |-> generate_statement(ins.body[k])])
    \o <<"        Ok(())", "    }", "">>

\* Mutation: only the first statement of the body is looked at.
init_accounts_first_statement(ins) ==
    LET inits == SelectSeq(IF ins.body = <<>> THEN <<>> ELSE <<Head(ins.body)>>,
                    LAMBDA st : /\ st.kind = "InitAccount"
                                /\ \E k \in 1..Len(ins.params) :
                                       ins.params[k].name = st.var_name)
    IN  [k \in 1..Len(inits) |->
            <<inits[k].var_name, inits[k].payer, inits[k].signer>>]

\* init_accounts: for each InitAccount statement of the body, in order, whose
\* var_name is the name of some parameter: (that name, payer, signer)
init_accounts(ins) ==
    LET inits == SelectSeq(ins.body,
                    LAMBDA st : /\ st.kind = "InitAccount"
                                /\ \E k \in 1..Len(ins.params) :
                                       ins.params[k].name = st.var_name)
    IN  [k \in 1..Len(inits) |->
            <<inits[k].var_name, inits[k].payer, inits[k].signer>>]

\* Mutation: a Signer parameter contributes no field.
context_field_without_signer(program, ins, prm) ==
    IF prm.ty.tag # "Account" THEN <<>>
    ELSE <<"    #[account(mut)]",
           "    pub " \o prm.name \o ": Account<'info, " \o prm.ty.name \o ">,">>

\* the context field of one parameter
context_field(program, ins, prm) ==
    CASE prm.ty.tag = "Signer" ->
            <<"    #[account(mut)]", "    pub " \o prm.name \o ": Signer<'info>,">>
      [] prm.ty.tag = "Account" ->
            LET inits == init_accounts(ins)
                hits == {k \in 1..Len(inits) : inits[k][1] = prm.name}
                annotation ==
                    IF hits # {}
                    THEN LET k == CHOOSE k \in hits : \A j \in hits : k <= j
                         IN  <<"    #[account(", "        init,",
                               "        payer = " \o inits[k][2] \o ",",
                               "        space = "
                                   \o ToString(account_space(program, prm.ty.name)),
                               "    )]">>
                    ELSE <<"    #[account(mut)]">>
            IN  annotation
                \o <<"    pub " \o prm.name \o ": Account<'info, "
                         \o prm.ty.name \o ">,">>
      [] OTHER -> <<>>

\* one #[derive(Accounts)] struct per instruction
context_struct(program, ins) ==
    <<"#[derive(Accounts)]", "pub struct " \o ins.name \o "Context<'info> {">>
    \o Flatten([k \in 1..Len(ins.params) |->
                    context_field(program, ins, ins.params[k])])
    \o <<"}", "">>

\* generate_anchor_code: the lines of the returned String
generate_anchor_code(h) ==
    LET program == h.program
    IN  <<"use anchor_lang::prelude::*;", "">>
        \o Flatten([a \in 1..Len(program.accounts) |->
                        account_struct(program.accounts[a])])
        \o <<"#[program]", "pub mod " \o to_lowercase(program.name) \o " {",
             "    use super::*;", "">>
        \o Flatten([i \in 1..Len(program.instructions) |->
                        handler(program.instructions[i])])
        \o <<"}", "">>
        \o Flatten([i \in 1..Len(program.instructions) |->
                        context_struct(program, program.instructions[i])])

----------------------------------------------------------------------------
(* Bounds and input sets *)

MaxParams == 2
MaxStmts == 2
MaxFields == 2

\* all sequences over S of length at most n
SeqsUpTo(S, n) == UNION {[1..k -> S] : k \in 0..n}

CounterState ==
    [name |-> "CounterState",
     fields |-> <<[name |-> "authority", ty |-> Pubkey],
                  [name |-> "count", ty |-> U64]>>]

Vault == [name |-> "Vault", fields |-> <<[name |-> "total", ty |-> U32]>>]

\* every Type variant, with nesting
TypePool ==
    {Pubkey, U8, U16, U32, U64, I8, I16, I32, I64, Bool, String,
     Vec(U8), Option(Pubkey), Vec(Option(U16)), Option(Vec(String))}

FieldLists ==
    {[k \in 1..Len(tys) |-> [name |-> "f" \o ToString(k), ty |-> tys[k]]] :
        tys \in SeqsUpTo(TypePool, MaxFields)}

\* programs that exercise the account-reference check: two instructions whose
\* parameters refer to declared and undeclared account types
RefParamPool ==
    {[name |-> "state", ty |-> Account("CounterState")],
     [name |-> "vault", ty |-> Account("Vault")],
     [name |-> "ghost", ty |-> Account("Ghost")],
     [name |-> "amount", ty |-> U64]}

RefPrograms ==
    {[name |-> "Refs", accounts |-> accs,
      instructions |-> <<[name |-> "first", params |-> p1, body |-> <<>>],
                         [name |-> "second", params |-> p2, body |-> <<>>]>>] :
        accs \in {<<>>, <<CounterState>>, <<CounterState, Vault>>},
        p1 \in SeqsUpTo(RefParamPool, MaxParams),
        p2 \in SeqsUpTo(RefParamPool, MaxParams)}

\* programs that exercise the handler and context generation: one instruction
\* over a mix of parameter kinds, its body naming parameters in init statements
GenParamPool ==
    {[name |-> "authority", ty |-> Signer],
     [name |-> "state", ty |-> Account("CounterState")],
     [name |-> "vault", ty |-> Account("Vault")],
     [name |-> "amount", ty |-> U64],
     [name |-> "label", ty |-> String]}

GenStmtPool ==
    {InitAccount("state", "CounterState", "authority", <<>>),
     InitAccount("state", "CounterState", "vault", <<"authority">>),
     InitAccount("authority", "CounterState", "authority", <<>>),
     Assign(FieldAccess(Ident("state"), "count"), Ident("amount"))}

GenPrograms ==
    {[name |-> "Gen", accounts |-> <<CounterState, Vault>>,
      instructions |-> <<[name |-> "run", params |-> ps, body |-> b]>>] :
        ps \in SeqsUpTo(GenParamPool, MaxParams),
        b \in SeqsUpTo(GenStmtPool, MaxStmts)}

\* programs that exercise the space computation: an initialized account over
\* every field list, alone or shadowing a later AccountDef of the same name
SpacePrograms ==
    {[name |-> "Space", accounts |-> <<[name |-> "Data", fields |-> fs]>> \o more,
      instructions |->
          <<[name |-> "initialize",
             params |-> <<[name |-> "payer", ty |-> Signer],
                          [name |-> "data", ty |-> Account("Data")]>>,
             body |-> <<InitAccount("data", "Data", "payer", <<>>)>>]>>] :
        fs \in FieldLists,
        more \in {<<>>, <<[name |-> "Data", fields |-> <<>>]>>}}

\* programs that exercise the shapes of Expr: one expression statement over the
\* left-deep trees the grammar builds and over the other trees of the data model
LeftDeepExprs ==
    {Ident("a"),
     UnaryOp("Neg", Ident("a")),
     Literal(LitUInt(1)),
     BinaryOp("Sub", Ident("a"), Ident("a")),
     BinaryOp("Sub", BinaryOp("Sub", Ident("a"), Ident("a")), Ident("a")),
     BinaryOp("Sub", Ident("a"), UnaryOp("Neg", Literal(LitUInt(1))))}

OtherExprs ==
    {BinaryOp("Sub", Ident("a"), BinaryOp("Sub", Ident("a"), Ident("a"))),
     UnaryOp("Neg", BinaryOp("Sub", Ident("a"), Ident("a"))),
     UnaryOp("Neg", UnaryOp("Neg", Ident("a"))),
     Literal(LitInt(0 - 1))}

ExprPrograms ==
    {[name |-> "Exprs", accounts |-> <<>>,
      instructions |-> <<[name |-> "eval", params |-> <<>>,
                          body |-> <<ExprStmt(e)>>]>>] :
        e \in LeftDeepExprs \cup OtherExprs}

\* expression trees of every kind: identifiers that name a Signer, an Account,
\* a scalar parameter and no parameter; field accesses; literals; prefix
\* operators; every binary operator; and binary operations nested on the left,
\* on the right, on both sides and under a prefix operator or a field access
BinOpNames ==
    {"Add", "Sub", "Mul", "Div", "Mod", "Eq", "Ne", "Lt", "Le", "Gt", "Ge",
     "And", "Or"}

LoweringExprs ==
    {Ident("authority"), Ident("state"), Ident("amount"), Ident("nobody"),
     FieldAccess(Ident("state"), "count"),
     FieldAccess(FieldAccess(Ident("state"), "owner"), "key"),
     Literal(LitUInt(7)), Literal(LitBool(TRUE)), Literal(LitBool(FALSE)),
     Literal(LitString("(a + b)")),
     UnaryOp("Not", FieldAccess(Ident("state"), "open")),
     UnaryOp("Neg", Ident("amount")),
     UnaryOp("Neg", UnaryOp("Neg", Ident("amount"))),
     UnaryOp("Neg", BinaryOp("Add", Ident("amount"), Literal(LitUInt(1)))),
     FieldAccess(BinaryOp("Add", Ident("state"), Ident("amount")), "count"),
     BinaryOp("Mul", BinaryOp("Add", Ident("a"), Ident("b")), Ident("c")),
     BinaryOp("Sub", Ident("a"),
              BinaryOp("Sub", Ident("b"), BinaryOp("Sub", Ident("c"), Ident("d")))),
     BinaryOp("Sub", BinaryOp("Sub", BinaryOp("Sub", Ident("a"), Ident("b")),
                              Ident("c")), Ident("d")),
     BinaryOp("Add", BinaryOp("Mul", Ident("a"), Ident("b")),
              BinaryOp("Div", Ident("c"), Ident("d"))),
     BinaryOp("And", BinaryOp("Or", Ident("a"), Ident("b")),
              UnaryOp("Not", BinaryOp("Lt", Ident("c"), Literal(LitUInt(2))))),
     BinaryOp("Eq", Literal(LitString(")(")),
              FieldAccess(Ident("state"), "label"))}
    \cup {BinaryOp(o, FieldAccess(Ident("state"), "count"), Literal(LitUInt(1))) :
            o \in BinOpNames}

LoweringPrograms ==
    {[name |-> "Lower", accounts |-> <<CounterState>>,
      instructions |->
          <<[name |-> "eval",
             params |-> <<[name |-> "authority", ty |-> Signer],
                          [name |-> "state", ty |-> Account("CounterState")],
                          [name |-> "amount", ty |-> U64]>>,
             body |-> <<ExprStmt(e)>>]>>] :
        e \in LoweringExprs}

\* the families of Program values a run may start from
Programs ==
    <<RefPrograms, GenPrograms, SpacePrograms, ExprPrograms, LoweringPrograms>>

----------------------------------------------------------------------------
(* The pipeline as a state machine *)

NotYet == <<>>

Idle == /\ acct = <<>>
        /\ size = 0
        /\ prevSize = 0
        /\ edit = "none"

\* no build driver is running
NoBuild == /\ disk = <<>>
           /\ disk0 = <<>>
           /\ anchor = "not run"

\* parse(&source)
Parse ==
    /\ pc = "start"
    /\ ast' = parse(source)
    /\ pc' = IF ast'.ok THEN "parsed" ELSE "failed"
    /\ UNCHANGED <<source, hir, output, acct, size, prevSize, edit,
                 disk, disk0, anchor>>

\* Hir::from_ast(ast)
Validate ==
    /\ pc = "parsed"
    /\ hir' = from_ast(ast.program)
    /\ pc' = IF hir'.ok THEN "checked" ELSE "failed"
    /\ UNCHANGED <<source, ast, output, acct, size, prevSize, edit,
                 disk, disk0, anchor>>

\* generate_anchor_code(&hir)
Generate ==
    /\ pc = "checked"
    /\ output' = generate_anchor_code(hir)
    /\ pc' = "generated"
    /\ UNCHANGED <<source, ast, hir, acct, size, prevSize, edit,
                 disk, disk0, anchor>>

\* a run of Hir::from_ast and generate_anchor_code on a Program value
InitAst ==
    /\ pc = "parsed"
    /\ source = ""
    /\ \E k \in 1..Len(Programs) :
          ast \in {[ok |-> TRUE, program |-> prog] : prog \in Programs[k]}
    /\ hir = NotYet
    /\ output = NotYet
    /\ Idle
    /\ NoBuild

NextAst == Validate \/ Generate

SpecAst == InitAst /\ [][NextAst]_vars

----------------------------------------------------------------------------
(* Reading generated text back *)

StartsWith(str, pre) ==
    Len(str) >= Len(pre) /\ SubSeq(str, 1, Len(pre)) = pre

Contains(str, sub) ==
    \E i \in 1..Len(str) :
        i + Len(sub) - 1 <= Len(str) /\ SubSeq(str, i, i + Len(sub) - 1) = sub

\* the positions of the lines of out that satisfy Test, in ascending order
Positions(out, Test(_)) ==
    SelectSeq([i \in 1..Len(out) |-> i], LAMBDA i : Test(out[i]))

\* the first position after from whose line is exactly line (0 when none)
NextLine(out, from, line) ==
    LET later == {i \in (from + 1)..Len(out) : out[i] = line}
    IN  IF later = {} THEN 0 ELSE CHOOSE i \in later : \A j \in later : i <= j

\* "    pub name: type," or "        name: type,": the name and the type text
ColonAt(line) == CHOOSE i \in 1..Len(line) :
                    /\ SubSeq(line, i, i) = ":"
                    /\ \A j \in 1..(i - 1) : SubSeq(line, j, j) # ":"
DeclName(line) == SubSeq(line, 9, ColonAt(line) - 1)
DeclType(line) == SubSeq(line, ColonAt(line) + 2, Len(line) - 1)

\* the k-th #[derive(Accounts)] struct of the text: its header line and its
\* fields, each the annotation lines followed by the "    pub" line they annotate
ContextStarts(out) == Positions(out, LAMBDA l : l = "#[derive(Accounts)]")

ContextBlock(out, k) ==
    LET s == ContextStarts(out)[k]
        e == NextLine(out, s, "}")
        inner == SubSeq(out, s + 2, e - 1)
        pubs == Positions(inner, LAMBDA l : StartsWith(l, "    pub "))
    IN  [header |-> out[s + 1],
         complete |-> pubs = <<>> \/ pubs[Len(pubs)] = Len(inner),
         fields |-> [j \in 1..Len(pubs) |->
                        [annotation |->
                            SubSeq(inner, IF j = 1 THEN 1 ELSE pubs[j - 1] + 1,
                                   pubs[j] - 1),
                         decl |-> inner[pubs[j]]]]]

\* the k-th handler of the text: the lines of its argument list
HandlerStarts(out) == Positions(out, LAMBDA l : StartsWith(l, "    pub fn "))

HandlerArgs(out, k) ==
    LET s == HandlerStarts(out)[k]
        e == NextLine(out, s, "    ) -> Result<()> {")
    IN  SubSeq(out, s + 1, e - 1)

HandlerBody(out, k) ==
    LET s == HandlerStarts(out)[k]
        b == NextLine(out, s, "    ) -> Result<()> {")
        e == NextLine(out, b, "    }")
    IN  SubSeq(out, b + 1, e - 1)

IsContextParam(q) == q.ty.tag \in {"Signer", "Account"}

ContextParams(ins) == SelectSeq(ins.params, IsContextParam)

ScalarParams(ins) == SelectSeq(ins.params, LAMBDA q : ~IsContextParam(q))

Instructions == ast.program.instructions

----------------------------------------------------------------------------
(* Claims about Hir::from_ast and generate_anchor_code *)

\* the Account(X) references of a program: instruction order, then parameter order
AccountRefs(program) ==
    Flatten([i \in 1..Len(program.instructions) |->
        LET ps == SelectSeq(program.instructions[i].params,
                            LAMBDA q : q.ty.tag = "Account")
        IN  [k \in 1..Len(ps) |-> ps[k].ty.name]])

Unresolved(program) ==
    SelectSeq(AccountRefs(program),
              LAMBDA x : \A a \in 1..Len(program.accounts) :
                            program.accounts[a].name # x)

\* C1: Hir::from_ast succeeds exactly when every Account(X) parameter names a
\* declared AccountDef; a failure names the first unresolved X (instruction
\* order, then parameter order), carries no program and is never generated from.
C1_FromAstIffResolved ==
    hir # NotYet =>
        LET bad == Unresolved(ast.program)
        IN  /\ hir.ok <=> bad = <<>>
            /\ hir.ok => hir.program = ast.program /\ pc \in {"checked", "generated"}
            /\ ~hir.ok => /\ hir.error = "Unknown account type: " \o bad[1]
                          /\ "program" \notin DOMAIN hir
                          /\ pc = "failed"
                          /\ output = NotYet

\* a failure that names a reference of the second instruction, after the
\* resolved references and the scalar parameters of the first
C1_Witness ==
    /\ pc = "failed"
    /\ hir # NotYet
    /\ Len(ast.program.instructions[1].params) = 2
    /\ \E j \in 1..2 : ast.program.instructions[1].params[j].ty.tag = "Account"
    /\ first_unknown_param(ast.program, ast.program.instructions[1].params, 1) = <<>>
    /\ Len(Unresolved(ast.program)) = 2
    /\ Unresolved(ast.program)[1] # Unresolved(ast.program)[2]

\* C2: the struct <I.name>Context has exactly one field per Signer or Account
\* parameter of I, in declared order, under the parameter's name, and no field
\* for a parameter of any other type.
C2_ContextFieldsMatchParams ==
    pc = "generated" =>
        /\ Len(ContextStarts(output)) = Len(Instructions)
        /\ \A k \in 1..Len(Instructions) :
            LET blk == ContextBlock(output, k)
                want == ContextParams(Instructions[k])
            IN  /\ blk.header = "pub struct " \o Instructions[k].name \o "Context<'info> {"
                /\ blk.complete
                /\ Len(blk.fields) = Len(want)
                /\ \A j \in 1..Len(want) :
                    /\ DeclName(blk.fields[j].decl) = want[j].name
                    /\ DeclType(blk.fields[j].decl) =
                          IF want[j].ty.tag = "Signer" THEN "Signer<'info>"
                          ELSE "Account<'info, " \o want[j].ty.name \o ">"

\* a generated struct for scalar, account and signer parameters interleaved
C2_Witness ==
    /\ pc = "generated"
    /\ \E k \in 1..Len(Instructions) :
        /\ Len(Instructions[k].params) >= 2
        /\ ~IsContextParam(Instructions[k].params[1])
        /\ IsContextParam(Instructions[k].params[2])
        /\ Len(ContextBlock(output, k).fields) = 1

InitStatements(ins, n) ==
    SelectSeq(ins.body, LAMBDA st : st.kind = "InitAccount" /\ st.var_name = n)

\* C3: the field of an Account parameter p carries (init, payer = P, space = S)
\* exactly when some InitAccount statement of the body has var_name = p.name,
\* P being the payer of such a statement; otherwise it carries only
\* #[account(mut)].  A Signer parameter always yields a mutable signer field.
C3_InitAnnotation ==
    pc = "generated" =>
        \A k \in 1..Len(Instructions) :
            LET blk == ContextBlock(output, k)
                want == ContextParams(Instructions[k])
            IN  /\ Len(blk.fields) = Len(want)
                /\ \A j \in 1..Len(want) :
                    LET ann == blk.fields[j].annotation
                        inits == InitStatements(Instructions[k], want[j].name)
                    IN  IF want[j].ty.tag = "Account" /\ inits # <<>>
                        THEN /\ Len(ann) = 5
                             /\ ann[1] = "    #[account("
                             /\ ann[2] = "        init,"
                             /\ \E n \in 1..Len(inits) :
                                    ann[3] = "        payer = " \o inits[n].payer \o ","
                             /\ StartsWith(ann[4], "        space = ")
                             /\ ann[5] = "    )]"
                        ELSE /\ ann = <<"    #[account(mut)]">>
                             /\ want[j].ty.tag = "Signer" =>
                                    DeclType(blk.fields[j].decl) = "Signer<'info>"

\* an instruction with a signer and an account that InitAccount statements
\* name: the account is init-annotated, the signer stays a mutable signer
C3_Witness ==
    /\ pc = "generated"
    /\ \E k \in 1..Len(Instructions) :
        LET ps == Instructions[k].params
        IN  /\ Len(ps) = 2
            /\ ps[1].ty.tag = "Signer"
            /\ InitStatements(Instructions[k], ps[1].name) # <<>>
            /\ ps[2].ty.tag = "Account"
            /\ InitStatements(Instructions[k], ps[2].name) # <<>>
            /\ ContextBlock(output, k).fields[1].annotation
                  = <<"    #[account(mut)]">>
            /\ Len(ContextBlock(output, k).fields[2].annotation) = 5

\* the widths the size rule states
RECURSIVE StatedWidth(_)
StatedWidth(ty) ==
    IF ty.tag = "Pubkey" THEN 32
    ELSE IF ty.tag \in {"U8", "I8", "Bool"} THEN 1
    ELSE IF ty.tag \in {"U16", "I16"} THEN 2
    ELSE IF ty.tag \in {"U32", "I32"} THEN 4
    ELSE IF ty.tag \in {"U64", "I64", "String"} THEN 8
    ELSE IF ty.tag = "Vec" THEN 8 + StatedWidth(ty.inner)
    ELSE 1 + StatedWidth(ty.inner)

RECURSIVE SumSeq(_)
SumSeq(ns) == IF ns = <<>> THEN 0 ELSE Head(ns) + SumSeq(Tail(ns))

\* the first AccountDef of the program with the given name
NamedAccount(program, n) ==
    program.accounts[CHOOSE a \in 1..Len(program.accounts) :
        /\ program.accounts[a].name = n
        /\ \A b \in 1..(a - 1) : program.accounts[b].name # n]

\* C4: the space emitted for an initialized account is 8 plus the sum of the
\* stated widths of the fields of the AccountDef its parameter type names.
C4_SpaceIsEightPlusWidths ==
    pc = "generated" =>
        \A k \in 1..Len(Instructions) :
            LET blk == ContextBlock(output, k)
                want == ContextParams(Instructions[k])
            IN  \A j \in 1..Len(blk.fields) :
                    Len(blk.fields[j].annotation) = 5 =>
                        LET def == NamedAccount(hir.program, want[j].ty.name)
                        IN  blk.fields[j].annotation[4] =
                                "        space = "
                                \o ToString(8 + SumSeq([f \in 1..Len(def.fields) |->
                                                        StatedWidth(def.fields[f].ty)]))

\* an initialized account with a nested Vec field and a String field
C4_Witness ==
    /\ pc = "generated"
    /\ \E a \in 1..Len(hir.program.accounts) :
        LET fs == hir.program.accounts[a].fields
        IN  /\ Len(fs) = 2
            /\ fs[1].ty = Vec(Option(U16))
            /\ fs[2].ty = String
    /\ \E k \in 1..Len(Instructions) :
        \E j \in 1..Len(ContextBlock(output, k).fields) :
            /\ Len(ContextBlock(output, k).fields[j].annotation) = 5
            /\ ContextBlock(output, k).fields[j].annotation[4] = "        space = 27"

\* C7: after the context argument a handler lists exactly the parameters that
\* are neither Signer nor Account, in declared order; with the context struct
\* holding the others, every parameter appears in exactly one of the two places.
C7_HandlerArgsAreScalars ==
    pc = "generated" =>
        /\ Len(HandlerStarts(output)) = Len(Instructions)
        /\ \A k \in 1..Len(Instructions) :
            LET args == HandlerArgs(output, k)
                want == ScalarParams(Instructions[k])
            IN  /\ args[1] = "        ctx: Context<" \o Instructions[k].name \o "Context>,"
                /\ Len(args) = 1 + Len(want)
                /\ \A j \in 1..Len(want) :
                    /\ DeclName(args[j + 1]) = want[j].name
                    /\ DeclType(args[j + 1]) = param_to_rust_type(want[j].ty)
                /\ Len(want) + Len(ContextBlock(output, k).fields)
                      = Len(Instructions[k].params)

\* a handler with two scalar arguments, and one whose parameters all moved to
\* the context
C7_Witness ==
    /\ pc = "generated"
    /\ \E k \in 1..Len(Instructions) :
        /\ Len(HandlerArgs(output, k)) = 3
        /\ DeclName(HandlerArgs(output, k)[2]) # DeclName(HandlerArgs(output, k)[3])

----------------------------------------------------------------------------
(* The size of an account under edits of its field list *)

\* the space generate_anchor_code computes for an initialized account whose
\* AccountDef has the given fields
SpaceOf(fields) ==
    account_space([name |-> "Space",
                   accounts |-> <<[name |-> "Data", fields |-> fields]>>,
                   instructions |-> <<>>], "Data")

IntegerBits(ty) ==
    CASE ty.tag \in {"U8", "I8"} -> 8
      [] ty.tag \in {"U16", "I16"} -> 16
      [] ty.tag \in {"U32", "I32"} -> 32
      [] ty.tag \in {"U64", "I64"} -> 64
      [] OTHER -> 0

IntegerTypes == {U8, U16, U32, U64, I8, I16, I32, I64}

InitSize ==
    /\ pc = "edit"
    /\ source = ""
    /\ ast = NotYet
    /\ hir = NotYet
    /\ output = NotYet
    /\ acct \in FieldLists
    /\ size = SpaceOf(acct)
    /\ prevSize = size
    /\ edit = "none"
    /\ NoBuild

Measured(fields, what) ==
    /\ acct' = fields
    /\ prevSize' = size
    /\ size' = SpaceOf(fields)
    /\ edit' = what
    /\ UNCHANGED <<pc, source, ast, hir, output, disk, disk0, anchor>>

\* a field of any type is added at any position
AddField ==
    /\ Len(acct) < MaxFields
    /\ \E ty \in TypePool, at \in 0..Len(acct) :
        Measured(SubSeq(acct, 1, at) \o <<[name |-> "added", ty |-> ty]>>
                     \o SubSeq(acct, at + 1, Len(acct)), "add")

\* a field of integer type takes a wider integer type
WidenField ==
    \E i \in 1..Len(acct) :
        /\ acct[i].ty \in IntegerTypes
        /\ \E ty \in IntegerTypes :
            /\ IntegerBits(ty) > IntegerBits(acct[i].ty)
            /\ Measured([acct EXCEPT ![i].ty = ty], "widen")

\* the fields are put in another order
PermuteFields ==
    \E perm \in Permutations(1..Len(acct)) :
        /\ perm # [i \in 1..Len(acct) |-> i]
        /\ Measured([i \in 1..Len(acct) |-> acct[perm[i]]], "permute")

NextSize == AddField \/ WidenField \/ PermuteFields

SpecSize == InitSize /\ [][NextSize]_vars

\* C5: adding a field of any type strictly increases the computed size,
\* widening an integer field strictly increases it, and reordering the fields
\* leaves it unchanged.
C5_SizeMonotoneOrderFree ==
    /\ edit \in {"add", "widen"} => size > prevSize
    /\ edit = "permute" => size = prevSize

\* a reordering of an added Vec field and a 64-bit field
C5_Witness ==
    /\ edit = "permute"
    /\ Len(acct) = 2
    /\ acct[1].name = "added"
    /\ acct[1].ty = Vec(U8)
    /\ acct[2].ty = U64
    /\ size = 25

----------------------------------------------------------------------------
(* Source texts *)

\* one instruction whose body is the given statement text
Wrap(stmts) == "program P\ninstruction f(x: u64) {\n  " \o stmts \o "\n}\n"

\* the counter scenario in the concrete syntax of the grammar: a program
\* header, fields and statements separated by whitespace
ScenarioSource ==
    "program Counter\n"
    \o "account CounterState { authority: Pubkey count: u64 }\n"
    \o "instruction initialize(authority: Signer, state: CounterState) { "
    \o "init account state: CounterState payer authority "
    \o "state.authority = authority.key "
    \o "state.count = 0 }"

\* the counter scenario with its fields separated by a comma and its statements
\* by semicolons, under a program header
ScenarioLiteral ==
    "program Counter\n"
    \o "account CounterState { authority: Pubkey, count: u64 }\n"
    \o "instruction initialize(authority: Signer, state: CounterState) { "
    \o "init account state: CounterState payer authority; "
    \o "state.authority = authority.key; "
    \o "state.count = 0 }"

\* the scenario with only the comma, and with only the semicolons
ScenarioCommaOnly ==
    "program Counter\n"
    \o "account CounterState { authority: Pubkey, count: u64 }\n"
    \o "instruction initialize(authority: Signer, state: CounterState) { "
    \o "init account state: CounterState payer authority "
    \o "state.authority = authority.key "
    \o "state.count = 0 }"

ScenarioSemicolonsOnly ==
    "program Counter\n"
    \o "account CounterState { authority: Pubkey count: u64 }\n"
    \o "instruction initialize(authority: Signer, state: CounterState) { "
    \o "init account state: CounterState payer authority; "
    \o "state.authority = authority.key; "
    \o "state.count = 0 }"

\* the two declarations of the scenario exactly as written, one per line,
\* without a program header
ScenarioVerbatim ==
    "account CounterState { authority: Pubkey, count: u64 }\n"
    \o "instruction initialize(authority: Signer, state: CounterState) { "
    \o "init account state: CounterState payer authority; "
    \o "state.authority = authority.key; "
    \o "state.count = 0 }"

ScenarioSources ==
    {ScenarioSource, ScenarioLiteral, ScenarioCommaOnly, ScenarioSemicolonsOnly,
     ScenarioVerbatim}

\* assignment statements `T op V`: each part with its text, the tree it stands
\* for and the text it lowers to
AssignTargets ==
    {[text |-> "count", tree |-> Ident("count"), rust |-> "ctx.accounts.count"],
     [text |-> "state.count", tree |-> FieldAccess(Ident("state"), "count"),
      rust |-> "ctx.accounts.state.count"]}

CompoundOps ==
    {[text |-> "+=", op |-> "Add", rust |-> "+"],
     [text |-> "-=", op |-> "Sub", rust |-> "-"],
     [text |-> "*=", op |-> "Mul", rust |-> "*"],
     [text |-> "/=", op |-> "Div", rust |-> "/"],
     [text |-> "%=", op |-> "Mod", rust |-> "%"]}

AssignValues ==
    {[text |-> "1", tree |-> Literal(LitUInt(1)), rust |-> "1"],
     [text |-> "y * 2", tree |-> BinaryOp("Mul", Ident("y"), Literal(LitUInt(2))),
      rust |-> "(ctx.accounts.y * 2)"],
     [text |-> "y - z", tree |-> BinaryOp("Sub", Ident("y"), Ident("z")),
      rust |-> "(ctx.accounts.y - ctx.accounts.z)"],
     [text |-> "-y", tree |-> UnaryOp("Neg", Ident("y")), rust |-> "-ctx.accounts.y"],
     [text |-> "y.z || w",
      tree |-> BinaryOp("Or", FieldAccess(Ident("y"), "z"), Ident("w")),
      rust |-> "(ctx.accounts.y.z || ctx.accounts.w)"]}

Spacings == {"", " "}

CompoundSource(t, o, v, sp) == Wrap(t.text \o sp \o o.text \o sp \o v.text)

CompoundSources ==
    {CompoundSource(t, o, v, sp) :
        t \in AssignTargets, o \in CompoundOps, v \in AssignValues, sp \in Spacings}

PlainSources ==
    {Wrap(t.text \o " = " \o v.text) : t \in AssignTargets, v \in AssignValues}

\* an account block that is never closed, followed by nothing, by an
\* instruction or by another account block
UnclosedAccountSources ==
    {"program P\naccount A {" \o fs \o rest :
        fs \in {"", " x: u8", " x: u8 y: Vec<u16>"},
        rest \in {"", "\n", "\ninstruction f() { }", "\naccount B { y: u8 }",
                  "\ninstruction f(a: A) { a.x = 1 }\n"}}

CompleteSources ==
    {"program P", "program P\naccount A { x: u8 }\n",
     "program P\naccount A { }\ninstruction f(a: A) { a.x = 1 }",
     "program P\ninstruction f(a: Ghost) { }\n"}

\* a complete program followed by text that belongs to no rule
TrailingSources ==
    {w \o junk : w \in CompleteSources,
                 junk \in {"", "}", " x", "\naccount", "\ninstruction g(", " 1"}}

\* the binary operators of BinOp with the text the spec gives them
BinaryOperators ==
    {[text |-> "+", op |-> "Add"], [text |-> "-", op |-> "Sub"],
     [text |-> "*", op |-> "Mul"], [text |-> "/", op |-> "Div"],
     [text |-> "%", op |-> "Mod"], [text |-> "==", op |-> "Eq"],
     [text |-> "!=", op |-> "Ne"], [text |-> "<", op |-> "Lt"],
     [text |-> "<=", op |-> "Le"], [text |-> ">", op |-> "Gt"],
     [text |-> ">=", op |-> "Ge"], [text |-> "&&", op |-> "And"],
     [text |-> "||", op |-> "Or"]}

\* the three places of a statement that hold an expression
ExprContexts == {"require", "assign", "expr"}

\* an expression as a require condition, an assignment value or a statement
InContext(c, text) ==
    CASE c = "require" -> "require " \o text
      [] c = "assign" -> "x = " \o text
      [] c = "expr" -> text

StatementOf(c, tree) ==
    CASE c = "require" -> Require(tree, <<>>)
      [] c = "assign" -> Assign(Ident("x"), tree)
      [] c = "expr" -> ExprStmt(tree)

OperatorSource(o, c) == Wrap(InContext(c, "a " \o o.text \o " b"))

OperatorSources ==
    {OperatorSource(o, c) : o \in BinaryOperators, c \in ExprContexts}

\* the operators the rules of the grammar can reach (see comparison_fold)
ReachableOperators == {o \in BinaryOperators : o.op \notin {"Le", "Ge"}}

\* two operators in a row: `a op1 b op2 c`
PairSource(o1, o2) ==
    Wrap("a " \o o1.text \o " b " \o o2.text \o " c")

PairSources ==
    {PairSource(o1, o2) : o1 \in ReachableOperators, o2 \in ReachableOperators}

\* expressions with a prefix operator or a field access, and the four worked
\* examples of the precedence table
NestingExamples ==
    {[text |-> "a - b - c",
      tree |-> BinaryOp("Sub", BinaryOp("Sub", Ident("a"), Ident("b")),
                        Ident("c"))],
     [text |-> "a + b * c",
      tree |-> BinaryOp("Add", Ident("a"),
                        BinaryOp("Mul", Ident("b"), Ident("c")))],
     [text |-> "a || b && c",
      tree |-> BinaryOp("Or", Ident("a"),
                        BinaryOp("And", Ident("b"), Ident("c")))],
     [text |-> "-a.b", tree |-> UnaryOp("Neg", FieldAccess(Ident("a"), "b"))],
     [text |-> "!a.b.c",
      tree |-> UnaryOp("Not", FieldAccess(FieldAccess(Ident("a"), "b"), "c"))],
     [text |-> "-a * b.c",
      tree |-> BinaryOp("Mul", UnaryOp("Neg", Ident("a")),
                        FieldAccess(Ident("b"), "c"))],
     [text |-> "a.b *-c.d + e",
      tree |-> BinaryOp("Add",
                        BinaryOp("Mul", FieldAccess(Ident("a"), "b"),
                                 UnaryOp("Neg", FieldAccess(Ident("c"), "d"))),
                        Ident("e"))]}

NestingSources ==
    {Wrap(InContext(c, e.text)) : e \in NestingExamples, c \in ExprContexts}

\* decimal integer literals, each with its value as a u64 when it has one:
\* 0, 7, 42, 2^16 - 1, 2^16, 2^32, 2^63, 2^64 - 1, 2^64, 2^64 + 5,
\* 10^20 - 1 and 10^20
IntegerLiterals ==
    {[text |-> "0", fits |-> TRUE, value |-> <<0, 0, 0, 0>>],
     [text |-> "7", fits |-> TRUE, value |-> <<7, 0, 0, 0>>],
     [text |-> "42", fits |-> TRUE, value |-> <<42, 0, 0, 0>>],
     [text |-> "65535", fits |-> TRUE, value |-> <<65535, 0, 0, 0>>],
     [text |-> "65536", fits |-> TRUE, value |-> <<0, 1, 0, 0>>],
     [text |-> "4294967296", fits |-> TRUE, value |-> <<0, 0, 1, 0>>],
     [text |-> "9223372036854775808", fits |-> TRUE,
      value |-> <<0, 0, 0, 32768>>],
     [text |-> "18446744073709551615", fits |-> TRUE,
      value |-> <<65535, 65535, 65535, 65535>>],
     [text |-> "18446744073709551616", fits |-> FALSE, value |-> <<>>],
     [text |-> "18446744073709551621", fits |-> FALSE, value |-> <<>>],
     [text |-> "99999999999999999999", fits |-> FALSE, value |-> <<>>],
     [text |-> "100000000000000000000", fits |-> FALSE, value |-> <<>>]}

Signs == {"", "-"}

LiteralSource(n, sign, c) == Wrap(InContext(c, sign \o n.text))

LiteralSources ==
    {LiteralSource(n, sign, c) :
        n \in IntegerLiterals, sign \in Signs, c \in ExprContexts}

\* a negative number as the right operand of a binary operator
SignedOperandSources ==
    {Wrap("x = a " \o o \o " -5") : o \in {"*", "+", "-", "==", "&&"}}

Sources ==
    ScenarioSources \cup CompoundSources \cup PlainSources
    \cup UnclosedAccountSources \cup TrailingSources \cup OperatorSources
    \cup PairSources \cup NestingSources \cup LiteralSources
    \cup SignedOperandSources

----------------------------------------------------------------------------
(* A run of the whole pipeline on a source text *)

Init ==
    /\ pc = "start"
    /\ source \in Sources
    /\ ast = NotYet
    /\ hir = NotYet
    /\ output = NotYet
    /\ Idle
    /\ NoBuild

Next == Parse \/ Validate \/ Generate

Spec == Init /\ [][Next]_vars

----------------------------------------------------------------------------
(* Claims about the pipeline on source texts *)

InitializeFields ==
    << [annotation |-> <<"    #[account(mut)]">>,
        decl |-> "    pub authority: Signer<'info>,"],
       [annotation |-> <<"    #[account(", "        init,",
                         "        payer = authority,", "        space = 48",
                         "    )]">>,
        decl |-> "    pub state: Account<'info, CounterState>,"] >>

InitializeBody ==
    <<"        ctx.accounts.state.authority = ctx.accounts.authority.key;",
      "        ctx.accounts.state.count = 0;",
      "        Ok(())">>

\* what the scenario is expected to produce, for the source text src
ScenarioOutcome(src) ==
    source = src =>
        /\ pc # "failed"
        /\ pc = "generated" =>
            /\ Len(ContextStarts(output)) = 1
            /\ ContextBlock(output, 1).header
                  = "pub struct initializeContext<'info> {"
            /\ ContextBlock(output, 1).complete
            /\ ContextBlock(output, 1).fields = InitializeFields
            /\ HandlerBody(output, 1) = InitializeBody
            /\ HandlerArgs(output, 1) = <<"        ctx: Context<initializeContext>,">>

\* C6: the counter scenario written in the concrete syntax of the grammar (a
\* program header, fields and statements separated by whitespace only) passes
\* parse, validate and generate and yields an initializeContext with a mutable
\* signer field authority and an init-annotated state field with payer
\* authority and space 48, a handler body assigning
\* ctx.accounts.state.authority and ctx.accounts.state.count, and a handler
\* whose only argument is the context; the same scenario with a comma between
\* the fields, with semicolons after the statements, or without the program
\* header is rejected by parse.
C6_ScenarioCompiles ==
    /\ ScenarioOutcome(ScenarioSource)
    /\ source \in ScenarioSources \ {ScenarioSource} =>
          /\ pc \in {"start", "failed"}
          /\ pc = "failed" => ~ast.ok

C6_Witness ==
    /\ source = ScenarioSource
    /\ pc = "generated"
    /\ ContextBlock(output, 1).fields[2].annotation[4] = "        space = 48"
    /\ Len(HandlerArgs(output, 1)) = 1

\* C6 as stated: the scenario with the comma and the semicolons of its text
\* passes parse, validate and generate with the same outcome.
C6_AsStated == ScenarioOutcome(ScenarioLiteral)

CompoundOperatorTexts == {"+=", "-=", "*=", "/=", "%="}

\* C8: for each compound operator, parsing `T op V` yields
\* Assign(T, BinaryOp(op', T, V)) with op' the matching arithmetic operator and
\* the whole expression V as the right operand; the generated statement is
\* the plain assignment `T = (T op' V);`; and no line of any generated text
\* contains a compound assignment operator.
C8_CompoundAssignDesugars ==
    /\ \A t \in AssignTargets, o \in CompoundOps, v \in AssignValues,
          sp \in Spacings :
          source = CompoundSource(t, o, v, sp) =>
              /\ pc # "failed"
              /\ pc \in {"parsed", "checked", "generated"} =>
                    Instructions[1].body
                        = <<Assign(t.tree, BinaryOp(o.op, t.tree, v.tree))>>
              /\ pc = "generated" =>
                    HandlerBody(output, 1)
                        = <<"        " \o t.rust \o " = (" \o t.rust \o " "
                                \o o.rust \o " " \o v.rust \o ");",
                            "        Ok(())">>
    /\ pc = "generated" =>
          \A i \in 1..Len(output) :
              \A c \in CompoundOperatorTexts : ~Contains(output[i], c)

C8_Witness ==
    /\ pc = "generated"
    /\ source = Wrap("state.count -= y - z")
    /\ HandlerBody(output, 1)[1]
          = "        ctx.accounts.state.count = "
                \o "(ctx.accounts.state.count - (ctx.accounts.y - ctx.accounts.z));"

\* the text after the first n characters of s holds something other than
\* whitespace
TextAfter(s, n) == SkipWs(s, n + 1) <= Len(s)

\* C9: a source whose account block lacks its closing brace makes parse
\* return an error with a non-empty message and no Program, and nothing is
\* validated or generated; and a Program that parse returns is never the
\* Program of a prefix of the input that leaves text behind.
C9_NoProgramFromPrefix ==
    /\ (source \in UnclosedAccountSources /\ pc # "start") =>
          /\ pc = "failed"
          /\ ~ast.ok
          /\ ast.error # ""
          /\ "program" \notin DOMAIN ast
          /\ hir = NotYet
          /\ output = NotYet
    /\ pc = "parsed" =>
          \A n \in 1..(Len(source) - 1) :
              TextAfter(source, n) =>
                  parse(SubSeq(source, 1, n)) # ast
    /\ pc = "failed" /\ hir = NotYet => "program" \notin DOMAIN ast

C9_Witness ==
    /\ source = "program P\naccount A { x: u8\ninstruction f(a: A) { a.x = 1 }\n"
    /\ pc = "failed"
    /\ ast = [ok |-> FALSE, error |-> "Parse errors:\n"]

----------------------------------------------------------------------------
(* Claims about the source forms of expressions *)

MaxSourceLen == 7

SourceAlphabet == {"a", "1", "-", "(", ")"}

\* every text of at most n characters over the alphabet
RECURSIVE TextsUpTo(_)
TextsUpTo(n) ==
    IF n = 0 THEN {""}
    ELSE LET shorter == TextsUpTo(n - 1)
         IN  shorter \cup {t \o c : t \in shorter, c \in SourceAlphabet}

\* the text parses, as a whole, to the expression e
ParsesTo(text, e) == expr_parser(text, 1) = Ok(e, Len(text) + 1)

\* C10: every Expr tree of the data model has a source form that parses back
\* to the same tree.
C10_EveryExprHasSource ==
    (pc = "parsed" /\ ast.program.name = "Exprs") =>
        \E text \in TextsUpTo(MaxSourceLen) :
            ParsesTo(text, Instructions[1].body[1].expr)

----------------------------------------------------------------------------
(* Binary operators *)

\* C13: for each of the thirteen binary operators, `a op b` as a require
\* condition, an assignment value or an expression statement parses to
\* BinaryOp(op', a, b) with op' the variant of that operator; `a <= b` gives Le
\* and `a >= b` gives Ge.
C13_EveryOperatorParses ==
    \A o \in BinaryOperators, c \in ExprContexts :
        (source = OperatorSource(o, c) /\ pc # "start") =>
            /\ ast.ok
            /\ ast.program.instructions[1].body
                  = <<StatementOf(c, BinaryOp(o.op, Ident("a"), Ident("b")))>>

\* the level of a binary operator in the rule chain logical_or, logical_and,
\* comparison, sum, product
Level(o) ==
    CASE o.op = "Or" -> 1
      [] o.op = "And" -> 2
      [] o.op \in {"Eq", "Ne", "Lt", "Le", "Gt", "Ge"} -> 3
      [] o.op \in {"Add", "Sub"} -> 4
      [] o.op \in {"Mul", "Div", "Mod"} -> 5

\* the tree of `a op1 b op2 c`: op2 takes b first only when it sits on a higher
\* level than op1
PairTree(o1, o2) ==
    IF Level(o2) > Level(o1)
    THEN BinaryOp(o1.op, Ident("a"), BinaryOp(o2.op, Ident("b"), Ident("c")))
    ELSE BinaryOp(o2.op, BinaryOp(o1.op, Ident("a"), Ident("b")), Ident("c"))

\* C14: the levels bind, from loosest to tightest, ||, &&, comparison,
\* additive, multiplicative, then prefix ! and -, then field access, then atom,
\* and each binary level groups to the left: `a op1 b op2 c` groups b with c
\* only when op2 is on a tighter level than op1, `a - b - c` is
\* Sub(Sub(a, b), c), `a + b * c` is Add(a, Mul(b, c)), `a || b && c` is
\* Or(a, And(b, c)) and `-a.b` is Neg(FieldAccess(a, b)).
C14_PrecedenceAndLeftAssociativity ==
    /\ \A o1 \in ReachableOperators, o2 \in ReachableOperators :
          (source = PairSource(o1, o2) /\ pc # "start") =>
              /\ ast.ok
              /\ ast.program.instructions[1].body
                    = <<ExprStmt(PairTree(o1, o2))>>
    /\ \A e \in NestingExamples, c \in ExprContexts :
          (source = Wrap(InContext(c, e.text)) /\ pc # "start") =>
              /\ ast.ok
              /\ ast.program.instructions[1].body = <<StatementOf(c, e.tree)>>

\* a product, an operand with a prefix sign and field accesses under a sum
C14_Witness ==
    /\ source = Wrap("require a.b *-c.d + e")
    /\ pc = "parsed"
    /\ ast.program.instructions[1].body[1].condition.left.right
          = UnaryOp("Neg", FieldAccess(Ident("c"), "d"))

ComparisonOperators == {o \in ReachableOperators : Level(o) = 3}

\* C15: comparisons do not chain: `a op1 b op2 c` with two comparison
\* operators is never parsed to the nested BinaryOp(op2, BinaryOp(op1, a, b), c).
C15_ComparisonsDoNotChain ==
    \A o1 \in ComparisonOperators, o2 \in ComparisonOperators :
        (source = PairSource(o1, o2) /\ pc # "start" /\ ast.ok) =>
            \A i \in 1..Len(ast.program.instructions[1].body) :
                ast.program.instructions[1].body[i]
                    # ExprStmt(BinaryOp(o2.op,
                                        BinaryOp(o1.op, Ident("a"), Ident("b")),
                                        Ident("c")))

----------------------------------------------------------------------------
(* Integer literals *)

\* the expression holds a Literal::Int
RECURSIVE HasLitInt(_)
HasLitInt(e) ==
    CASE e.kind = "Literal" -> e.lit.kind = "Int"
      [] e.kind = "Ident" -> FALSE
      [] e.kind = "FieldAccess" -> HasLitInt(e.object)
      [] e.kind = "UnaryOp" -> HasLitInt(e.operand)
      [] e.kind = "BinaryOp" -> HasLitInt(e.left) \/ HasLitInt(e.right)

StatementHasLitInt(stmt) ==
    CASE stmt.kind = "InitAccount" -> FALSE
      [] stmt.kind = "Require" -> HasLitInt(stmt.condition)
      [] stmt.kind = "Assign" -> HasLitInt(stmt.target) \/ HasLitInt(stmt.value)
      [] stmt.kind = "Expr" -> HasLitInt(stmt.expr)

\* C16: no Program returned by parse holds a Literal::Int; an integer literal
\* n of the source becomes Literal::UInt(n), and `-n` becomes
\* UnaryOp(Neg, Literal::UInt(n)).
C16_NoSignedLiteralFromParse ==
    /\ (pc # "start" /\ ast.ok) =>
          \A i \in 1..Len(ast.program.instructions) :
              \A j \in 1..Len(ast.program.instructions[i].body) :
                  ~StatementHasLitInt(ast.program.instructions[i].body[j])
    /\ \A n \in IntegerLiterals, c \in ExprContexts :
          (n.fits /\ pc # "start") =>
              /\ source = LiteralSource(n, "", c) =>
                    /\ ast.ok
                    /\ ast.program.instructions[1].body
                          = <<StatementOf(c, Literal(LitU64(n.value)))>>
              /\ source = LiteralSource(n, "-", c) =>
                    /\ ast.ok
                    /\ ast.program.instructions[1].body
                          = <<StatementOf(c, UnaryOp("Neg",
                                                     Literal(LitU64(n.value))))>>

\* `-42` as an assignment value has been parsed
C16_Witness ==
    /\ source = Wrap("x = -42")
    /\ pc = "parsed"
    /\ ast.program.instructions[1].body
          = <<Assign(Ident("x"), UnaryOp("Neg", Literal(LitUInt(42))))>>

\* what an integer literal is expected to become
LiteralOf(n) == Literal(LitU64(IF n.fits THEN n.value ELSE <<0, 0, 0, 0>>))

\* C18: parse accepts an integer literal of any magnitude; a literal above
\* 2^64 - 1 becomes Literal::UInt(0), never a wrapped value, and a literal of
\* at most 2^64 - 1 becomes Literal::UInt of exactly its value, which the
\* generated text prints back digit for digit.
C18_OverflowingLiteralIsZero ==
    \A n \in IntegerLiterals, c \in ExprContexts :
        (source = LiteralSource(n, "", c) /\ pc # "start") =>
            /\ ast.ok
            /\ ast.program.instructions[1].body = <<StatementOf(c, LiteralOf(n))>>
            /\ (pc = "generated" /\ c = "assign") =>
                  HandlerBody(output, 1)[1]
                      = "        ctx.accounts.x = "
                            \o (IF n.fits THEN n.text ELSE "0") \o ";"

\* 2^64 + 5 as an assignment value has become 0
C18_Witness ==
    /\ source = Wrap("x = 18446744073709551621")
    /\ pc = "generated"
    /\ ast.program.instructions[1].body[1].value = Literal(LitUInt(0))
    /\ HandlerBody(output, 1)[1] = "        ctx.accounts.x = 0;"

----------------------------------------------------------------------------
(* Reading a lowered expression back *)

\* position i of t is outside quotes
OutsideQuotes(t, i) ==
    Cardinality({j \in 1..(i - 1) : At(t, j) = "\""}) % 2 = 0

\* the pairs of parentheses open at position i of t
DepthAt(t, i) ==
    Cardinality({j \in 1..(i - 1) : At(t, j) = "(" /\ OutsideQuotes(t, j)})
    - Cardinality({j \in 1..(i - 1) : At(t, j) = ")" /\ OutsideQuotes(t, j)})

Largest(S) == IF S = {} THEN 0 ELSE CHOOSE x \in S : \A y \in S : y <= x

Smallest(S) == IF S = {} THEN 0 ELSE CHOOSE x \in S : \A y \in S : x <= y

\* the last '.' of t that is outside quotes and outside parentheses, or 0
LastTopDot(t) ==
    Largest({i \in 1..Len(t) :
                At(t, i) = "." /\ OutsideQuotes(t, i) /\ DepthAt(t, i) = 0})

\* the first space of t that is outside quotes and inside exactly one pair of
\* parentheses, or 0
FirstInnerSpace(t) ==
    Smallest({i \in 1..Len(t) :
                At(t, i) = " " /\ OutsideQuotes(t, i) /\ DepthAt(t, i) = 1})

\* the first space of t at or after i, or 0
NextSpace(t, i) == Smallest({j \in i..Len(t) : At(t, j) = " "})

\* how many times the character ch stands in t outside quotes
CountOutsideQuotes(t, ch) ==
    Cardinality({i \in 1..Len(t) : At(t, i) = ch /\ OutsideQuotes(t, i)})

AllDigits(t) == Len(t) > 0 /\ \A i \in 1..Len(t) : At(t, i) \in Digits

NotLowered == [kind |-> "NotLowered"]

\* the Expr a Rust reader sees in a lowered text: a prefix operator takes
\* everything after it, a field access everything before its dot, and a pair
\* of parentheses holds one binary operation
RECURSIVE ReadLowered(_)
ReadLowered(t) ==
    IF At(t, 1) = "!" THEN UnaryOp("Not", ReadLowered(SubSeq(t, 2, Len(t))))
    ELSE IF At(t, 1) = "-" THEN UnaryOp("Neg", ReadLowered(SubSeq(t, 2, Len(t))))
    ELSE IF StartsWith(t, "ctx.accounts.") /\ LastTopDot(t) = 13
         THEN Ident(SubSeq(t, 14, Len(t)))
    ELSE IF LastTopDot(t) # 0
         THEN FieldAccess(
                  ReadLowered(SubSeq(t, 1, LastTopDot(t) - 1)),
                  SubSeq(t, LastTopDot(t) + 1, Len(t)))
    ELSE IF At(t, 1) = "(" /\ At(t, Len(t)) = ")"
         THEN LET sp == FirstInnerSpace(t)
                  sp2 == IF sp = 0 THEN 0 ELSE NextSpace(t, sp + 1)
              IN  IF sp2 = 0
                     \/ \A o \in BinaryOperators : o.text # SubSeq(t, sp + 1, sp2 - 1)
                  THEN NotLowered
                  ELSE BinaryOp(
                          (CHOOSE o \in BinaryOperators :
                              o.text = SubSeq(t, sp + 1, sp2 - 1)).op,
                          ReadLowered(SubSeq(t, 2, sp - 1)),
                          ReadLowered(SubSeq(t, sp2 + 1, Len(t) - 1)))
    ELSE IF At(t, 1) = "\"" /\ At(t, Len(t)) = "\"" /\ Len(t) >= 2
         THEN Literal(LitString(SubSeq(t, 2, Len(t) - 1)))
    ELSE IF t = "true" THEN Literal(LitBool(TRUE))
    ELSE IF t = "false" THEN Literal(LitBool(FALSE))
    ELSE IF AllDigits(t) THEN Literal(LitU64(parse_u64_or_0(t)))
    ELSE NotLowered

\* the binary operations of an expression tree
RECURSIVE BinaryOps(_)
BinaryOps(e) ==
    CASE e.kind = "BinaryOp" -> 1 + BinaryOps(e.left) + BinaryOps(e.right)
      [] e.kind = "UnaryOp" -> BinaryOps(e.operand)
      [] e.kind = "FieldAccess" -> BinaryOps(e.object)
      [] OTHER -> 0

\* the text of the expression statement a handler holds
LoweredText(out) ==
    SubSeq(HandlerBody(out, 1)[1], 9, Len(HandlerBody(out, 1)[1]) - 1)

\* C17: an expression lowers by structural recursion: Ident(x) to
\* `ctx.accounts.x` whatever x names, FieldAccess to `<object>.<field>`,
\* UnaryOp to the operator and its operand, BinaryOp at any depth to
\* `(<left> <op> <right>)`; the text holds one pair of parentheses per binary
\* operation and reads back as the tree it came from.
C17_LoweringIsStructural ==
    (pc = "generated" /\ ast.program.name = "Lower") =>
        /\ HandlerBody(output, 1)
              = <<"        " \o LoweredText(output) \o ";", "        Ok(())">>
        /\ CountOutsideQuotes(LoweredText(output), "(")
              = BinaryOps(Instructions[1].body[1].expr)
        /\ CountOutsideQuotes(LoweredText(output), ")")
              = BinaryOps(Instructions[1].body[1].expr)
        /\ ReadLowered(LoweredText(output)) = Instructions[1].body[1].expr
        /\ Instructions[1].body[1].expr.kind = "Ident" =>
              LoweredText(output)
                  = "ctx.accounts." \o Instructions[1].body[1].expr.name

\* a product of a sum, which no source text can express, keeps its grouping
C17_Witness ==
    /\ pc = "generated"
    /\ Instructions[1].body
          = <<ExprStmt(BinaryOp("Mul", BinaryOp("Add", Ident("a"), Ident("b")),
                                Ident("c")))>>
    /\ LoweredText(output)
          = "((ctx.accounts.a + ctx.accounts.b) * ctx.accounts.c)"

----------------------------------------------------------------------------
(* The build driver: cmd_build of solx_cli *)

\* a file of the project directory: present or not, readable as text or not
File(text) == [exists |-> TRUE, readable |-> TRUE, text |-> text]

Unreadable(blank) == [exists |-> TRUE, readable |-> FALSE, text |-> blank]

Absent(blank) == [exists |-> FALSE, readable |-> FALSE, text |-> blank]

\* src/lib.rs as cmd_new leaves it
DefaultLibRs ==
    <<"use anchor_lang::prelude::*;", "",
      "declare_id!(\"11111111111111111111111111111111\");">>

\* the text written to src/lib.rs: two fixed lines, each followed by an empty
\* line, then the generated code
full_code(anchor_code) ==
    <<"use anchor_lang::prelude::*;", "",
      "declare_id!(\"11111111111111111111111111111111\");", "">>
    \o anchor_code

\* program.solx under src/ is preferred to program.solx in the project root
solx_file(d) ==
    IF d.solx_in_src.exists THEN d.solx_in_src
    ELSE IF d.solx_in_root.exists THEN d.solx_in_root
    ELSE Absent("")

\* DSL texts a project may hold: two that compile, one that parse rejects and
\* one that Hir::from_ast rejects
BuildSources ==
    {ScenarioSource, "program P", "program P\naccount A {",
     "program P\ninstruction f(a: Ghost) { }\n"}

SolxFiles == {Absent(""), Unreadable("")} \cup {File(t) : t \in BuildSources}

\* the project directories a build may find; a file under src/ needs src/
Disks ==
    {d \in [src : BOOLEAN, solx_in_src : SolxFiles, solx_in_root : SolxFiles,
            lib_rs : {Absent(<<>>), File(DefaultLibRs)}, anchor_toml : BOOLEAN] :
        (d.solx_in_src.exists \/ d.lib_rs.exists) => d.src}

\* the Result<()> of cmd_build once the run is over
cmd_build_result ==
    IF pc = "done" THEN "Ok" ELSE IF pc = "failed" THEN "Err" ELSE "running"

\* src/ is created before the source is read
ReadSource_creating_src ==
    /\ pc = "build"
    /\ IF solx_file(disk).readable
       THEN source' = solx_file(disk).text /\ pc' = "start"
       ELSE source' = source /\ pc' = "failed"
    /\ disk' = [disk EXCEPT !.src = TRUE]
    /\ UNCHANGED <<ast, hir, output, acct, size, prevSize, edit,
                   disk0, anchor>>

\* locating program.solx and fs::read_to_string
ReadSource ==
    /\ pc = "build"
    /\ IF solx_file(disk).readable
       THEN source' = solx_file(disk).text /\ pc' = "start"
       ELSE source' = source /\ pc' = "failed"
    /\ UNCHANGED <<ast, hir, output, acct, size, prevSize, edit,
                   disk, disk0, anchor>>

\* fs::create_dir_all(&src_dir): nothing to do when src/ exists, and it may be
\* refused when it does not
CreateSrcDir ==
    /\ pc = "generated"
    /\ \E created \in (IF disk.src THEN {TRUE} ELSE BOOLEAN) :
        IF created
        THEN disk' = [disk EXCEPT !.src = TRUE] /\ pc' = "src ready"
        ELSE disk' = disk /\ pc' = "failed"
    /\ UNCHANGED <<source, ast, hir, output, acct, size, prevSize, edit,
                   disk0, anchor>>

\* fs::write(&lib_rs_path, full_code): the file is created or truncated and
\* then filled; either step may be refused
WriteLibRs ==
    /\ pc = "src ready"
    /\ \E outcome \in {"written", "not created", "not filled"} :
        /\ disk' = CASE outcome = "written" ->
                            [disk EXCEPT !.lib_rs = File(full_code(output))]
                     [] outcome = "not created" -> disk
                     [] outcome = "not filled" ->
                            [disk EXCEPT !.lib_rs = File(<<>>)]
        /\ pc' = IF outcome = "written" THEN "written" ELSE "failed"
    /\ UNCHANGED <<source, ast, hir, output, acct, size, prevSize, edit,
                   disk0, anchor>>

\* the exit status of `anchor build` is not looked at
RunAnchor_ignoring_status ==
    /\ pc = "written"
    /\ IF disk.anchor_toml
       THEN \E status \in {"success", "exit code", "not started"} :
               anchor' = status /\ pc' = "done"
       ELSE anchor' = anchor /\ pc' = "done"
    /\ UNCHANGED <<source, ast, hir, output, acct, size, prevSize, edit,
                   disk, disk0>>

\* `anchor build`, run only when Anchor.toml exists
RunAnchor ==
    /\ pc = "written"
    /\ IF disk.anchor_toml
       THEN \E status \in {"success", "exit code", "not started"} :
               /\ anchor' = status
               /\ pc' = IF status = "success" THEN "done" ELSE "failed"
       ELSE anchor' = anchor /\ pc' = "done"
    /\ UNCHANGED <<source, ast, hir, output, acct, size, prevSize, edit,
                   disk, disk0>>

InitBuild ==
    /\ pc = "build"
    /\ source = ""
    /\ ast = NotYet
    /\ hir = NotYet
    /\ output = NotYet
    /\ Idle
    /\ disk \in Disks
    /\ disk0 = disk
    /\ anchor = "not run"

NextBuild ==
    \/ ReadSource
    \/ Parse
    \/ Validate
    \/ Generate
    \/ CreateSrcDir
    \/ WriteLibRs
    \/ RunAnchor

SpecBuild == InitBuild /\ [][NextBuild]_vars

\* what the stages of the run have returned so far
ParseFailed == ast # NotYet /\ ~ast.ok

ValidateFailed == hir # NotYet /\ ~hir.ok

PipelineSucceeded ==
    /\ ast # NotYet /\ ast.ok
    /\ hir # NotYet /\ hir.ok
    /\ output # NotYet /\ output = generate_anchor_code(hir)

\* locating or reading program.solx, parsing or validation has failed
FailedEarly ==
    \/ pc # "build" /\ ~solx_file(disk0).readable
    \/ ParseFailed
    \/ ValidateFailed

\* C11: src/lib.rs and src/ change only in a run whose parse, validation and
\* code generation have all succeeded, and a run in which locating or reading
\* program.solx, parsing or validation fails leaves the project directory as
\* it found it and returns an error.
C11_WriteOnlyAfterPipeline ==
    /\ disk # disk0 => PipelineSucceeded
    /\ FailedEarly => /\ cmd_build_result = "Err"
                      /\ disk = disk0
                      /\ anchor = "not run"

\* validation rejects the program of a project that already has a src/lib.rs,
\* and the file is still what it was
C11_Witness ==
    /\ cmd_build_result = "Err"
    /\ ValidateFailed
    /\ disk0.lib_rs = File(DefaultLibRs)
    /\ disk = disk0

\* src/lib.rs holds the text this run generated
Written == disk.lib_rs = File(full_code(output))

\* the run is over
Returned == cmd_build_result # "running"

\* C12: `anchor build` is run exactly in the runs whose pipeline succeeded,
\* whose src/lib.rs was written and whose project has an Anchor.toml, and it
\* is started only once the file is written; the run fails when the command
\* exits unsuccessfully or cannot be started, succeeds when there is no
\* Anchor.toml or the command succeeds, and a failed command leaves the
\* written file in place.
C12_AnchorBuildAfterWrite ==
    /\ [](/\ anchor # "not run" =>
                PipelineSucceeded /\ Written /\ disk.anchor_toml
          /\ (Returned /\ PipelineSucceeded /\ Written /\ disk.anchor_toml) =>
                anchor # "not run"
          /\ anchor \in {"exit code", "not started"} =>
                cmd_build_result = "Err" /\ Written
          /\ (Returned /\ PipelineSucceeded /\ Written
                /\ (~disk.anchor_toml \/ anchor = "success")) =>
                cmd_build_result = "Ok")
    /\ [][anchor' # anchor =>
            PipelineSucceeded /\ Written /\ disk.anchor_toml /\ disk' = disk]_vars

\* `anchor build` has exited unsuccessfully after this run replaced the
\* src/lib.rs it found
C12_Witness ==
    /\ anchor = "exit code"
    /\ cmd_build_result = "Err"
    /\ disk0.lib_rs = File(DefaultLibRs)
    /\ disk.lib_rs = File(full_code(output))
    /\ output = generate_anchor_code(hir)

============================================================================
